---- MODULE Spec2Model ----
(***************************************************************************)
(* csvfs: a directory of CSV files presented as a virtual filesystem.      *)
(* Model of the virtual filesystem operations of src/csvfs/main.py (class  *)
(* CSVFS) over the relational store of src/csvfs/backend.py.               *)
(*                                                                         *)
(* Text is modelled as sequences of one-character strings: a path is the   *)
(* sequence of its characters, a query file's content is a sequence of     *)
(* characters (Python str), and what the kernel hands to write and gets    *)
(* from read is a sequence of bytes.  The character "U+E9" is the one      *)
(* non-ASCII character of the model; its UTF-8 encoding is the two bytes   *)
(* "0xC3" "0xA9".  "NUL" is the character '\0', "LF" the newline and       *)
(* "BACKTICK" the backquote.                                               *)
(*                                                                         *)
(* SQL text written by the user is modelled by four statement shapes:      *)
(* the one-character statement "S" stands for SELECT * FROM t, "D" for     *)
(* DELETE FROM t, "C" for CREATE TABLE x (c), and every other text is a    *)
(* statement the engine rejects.                                           *)
(*                                                                         *)
(* The source directory holds at most the file t.csv and its schema file   *)
(* t.csv.schema; the database file and schema.json live in its .backend    *)
(* directory and outlast a mount.                                          *)
(***************************************************************************)
EXTENDS Integers, Sequences, FiniteSets, TLC

VARIABLES virtual_files, query_results, stats, db, ret,
          source, committed, schema_json, typists, m_cache, mounted, c_time

vars == <<virtual_files, query_results, stats, db, ret,
          source, committed, schema_json, typists, m_cache, mounted, c_time>>

\* what only mounting, unmounting and the owner of the source directory change
mount_vars == <<source, committed, schema_json, typists, m_cache, mounted, c_time>>

(***************************************************************************)
(* Bounds of the model.                                                    *)
(***************************************************************************)
\* longest query-file content (in characters) the model lets a file reach
MaxLen == 3
\* largest write offset / truncate length / read offset the model tries
MaxOff == 2
\* most rows the mirror table holds at mount
MaxRows == 5
\* rows per page (CSVFS.PAGE_SIZE; the command line's default is 3000)
PAGE_SIZE == 2

(***************************************************************************)
(* Sequences as Python strings / bytes.                                    *)
(***************************************************************************)
Min(a, b) == IF a <= b THEN a ELSE b

Max(a, b) == IF a >= b THEN a ELSE b

\* s[a:b] for 0 <= a, 0 <= b
Slice(s, a, b) == SubSeq(s, a + 1, Min(b, Len(s)))

\* s[a:]
SliceFrom(s, a) == SubSeq(s, a + 1, Len(s))

\* c * n
Repeat(c, n) == [i \in 1..Max(n, 0) |-> c]

StartsWith(s, prefix) ==
    /\ Len(prefix) <= Len(s)
    /\ SubSeq(s, 1, Len(prefix)) = prefix

EndsWith(s, suffix) ==
    /\ Len(suffix) <= Len(s)
    /\ SubSeq(s, Len(s) - Len(suffix) + 1, Len(s)) = suffix

\* the characters str.strip() removes (NUL is not one of them)
Whitespace == {" ", "LF"}

RECURSIVE LStrip(_)
LStrip(s) == IF s # <<>> /\ Head(s) \in Whitespace THEN LStrip(Tail(s)) ELSE s

RECURSIVE RStrip(_)
RStrip(s) ==
    IF s # <<>> /\ s[Len(s)] \in Whitespace
    THEN RStrip(SubSeq(s, 1, Len(s) - 1))
    ELSE s

\* str.strip()
Strip(s) == RStrip(LStrip(s))

\* str.split(sep) for a one-character separator: the pieces between the
\* separators, empty pieces included
RECURSIVE SplitFrom(_, _, _)
SplitFrom(s, sep, piece) ==
    IF s = <<>> THEN <<piece>>
    ELSE IF Head(s) = sep THEN <<piece>> \o SplitFrom(Tail(s), sep, <<>>)
    ELSE SplitFrom(Tail(s), sep, Append(piece, Head(s)))

Split(s, sep) == SplitFrom(s, sep, <<>>)

(***************************************************************************)
(* UTF-8: bytes.decode('utf-8') and str.encode('utf-8').                   *)
(***************************************************************************)
\* str.encode('utf-8') of one character
EncodeChar(c) == IF c = "U+E9" THEN <<"0xC3", "0xA9">> ELSE <<c>>

RECURSIVE Encode(_)
Encode(s) == IF s = <<>> THEN <<>> ELSE EncodeChar(Head(s)) \o Encode(Tail(s))

\* bytes.decode('utf-8'): ok = FALSE stands for UnicodeDecodeError (a lead
\* byte without its continuation byte, or a continuation byte alone)
RECURSIVE Decode(_)
Decode(b) ==
    IF b = <<>> THEN [ok |-> TRUE, text |-> <<>>]
    ELSE IF Head(b) = "0xC3"
    THEN IF Len(b) >= 2 /\ b[2] = "0xA9"
         THEN LET rest == Decode(SubSeq(b, 3, Len(b)))
              IN  [ok |-> rest.ok, text |-> <<"U+E9">> \o rest.text]
         ELSE [ok |-> FALSE, text |-> <<>>]
    ELSE IF Head(b) = "0xA9" THEN [ok |-> FALSE, text |-> <<>>]
    ELSE LET rest == Decode(Tail(b))
         IN  [ok |-> rest.ok, text |-> <<Head(b)>> \o rest.text]

(***************************************************************************)
(* Paths: pathlib.Path(path).name and .stem.                               *)
(***************************************************************************)
RECURSIVE DropTrailingSlashes(_)
DropTrailingSlashes(p) ==
    IF Len(p) > 1 /\ p[Len(p)] = "/"
    THEN DropTrailingSlashes(SubSeq(p, 1, Len(p) - 1))
    ELSE p

\* index of the last occurrence of c in s, 0 when there is none (rfind + 1)
LastIndexOf(s, c) ==
    LET hits == {i \in 1..Len(s) : s[i] = c}
    IN  IF hits = {} THEN 0 ELSE CHOOSE i \in hits : \A j \in hits : j <= i

\* Path(path).name: the last component
PathName(path) ==
    LET p == DropTrailingSlashes(path)
    IN  SliceFrom(p, LastIndexOf(p, "/"))

\* Path(path).stem: the name without its last suffix
PathStem(path) ==
    LET name == PathName(path)
        i    == LastIndexOf(name, ".")
    IN  IF 1 < i /\ i < Len(name) THEN SubSeq(name, 1, i - 1) ELSE name

(***************************************************************************)
(* String literals of the source, as character sequences.                  *)
(***************************************************************************)
DirRoot == <<"/">>

DirData == <<"/", "d", "a", "t", "a">>

DirSql == <<"/", "s", "q", "l">>

DirQueries == <<"/", "s", "q", "l", "/", "q", "u", "e", "r", "i", "e", "s">>

DirResults == <<"/", "s", "q", "l", "/", "r", "e", "s", "u", "l", "t", "s">>

DirStats == <<"/", "s", "t", "a", "t", "s">>

DirSchemas == <<"/", "s", "c", "h", "e", "m", "a", "s">>

PrefixStats == <<"/", "s", "t", "a", "t", "s", "/">>

PrefixData == <<"/", "d", "a", "t", "a", "/">>

PrefixPaged == <<"/", "d", "a", "t", "a", "/", "p", "a", "g", "e", "d", "_">>

PrefixQueries == <<"/", "s", "q", "l", "/", "q", "u", "e", "r", "i", "e", "s", "/">>

PrefixResults == <<"/", "s", "q", "l", "/", "r", "e", "s", "u", "l", "t", "s", "/">>

SuffixJson == <<".", "j", "s", "o", "n">>

SuffixCsv == <<".", "c", "s", "v">>

SuffixSql == <<".", "s", "q", "l">>

NamePaged == <<"p", "a", "g", "e", "d", "_">>

NameGlobal == <<"g", "l", "o", "b", "a", "l">>

TextNotFound == <<"Q", "u", "e", "r", "y", " ", "r", "e", "s", "u", "l", "t", " ", "n", "o", "t", " ", "f", "o", "u", "n", "d">>

TextErrorTable == <<"E", "r", "r", "o", "r", " ", "r", "e", "a", "d", "i", "n", "g", " ", "t", "a", "b", "l", "e", " ", "BACKTICK">>

TextErrorPaged == <<"E", "r", "r", "o", "r", " ", "r", "e", "a", "d", "i", "n", "g", " ", "p", "a", "g", "i", "n", "a", "t", "e", "d", " ", "t", "a", "b", "l", "e", " ", "BACKTICK">>

TextRows == <<"BACKTICK", " ", "r", "o", "w", "s", " ">>

TextInvalidPagination == <<"I", "n", "v", "a", "l", "i", "d", " ", "p", "a", "g", "i", "n", "a", "t", "i", "o", "n", " ", "f", "o", "r", "m", "a", "t">>


(***************************************************************************)
(* Decimal numbers in text: int(digits) and str(n).                        *)
(***************************************************************************)
DigitChars == <<"0", "1", "2", "3", "4", "5", "6", "7", "8", "9">>

IsDigit(c) == \E i \in 1..Len(DigitChars) : DigitChars[i] = c

DigitVal(c) == (CHOOSE i \in 1..Len(DigitChars) : DigitChars[i] = c) - 1

\* int(s) for a non-empty sequence of digits
RECURSIVE IntOf(_)
IntOf(s) ==
    IF s = <<>> THEN 0
    ELSE IntOf(SubSeq(s, 1, Len(s) - 1)) * Len(DigitChars) + DigitVal(s[Len(s)])

\* str(n) for n >= 0
RECURSIVE StrOf(_)
StrOf(n) ==
    IF n < Len(DigitChars) THEN <<DigitChars[n + 1]>>
    ELSE StrOf(n \div Len(DigitChars)) \o <<DigitChars[(n % Len(DigitChars)) + 1]>>

(***************************************************************************)
(* Namespace resolver: CSVFS._get_file_type and the pagination regex.      *)
(***************************************************************************)
virtual_dirs ==
    {DirRoot, DirData, DirSql, DirQueries, DirResults, DirStats, DirSchemas}

\* The matches of  (.+)\.(\d+)-(\d+)  anchored at the start of name only
\* (re.match): <<i, j>> with name[i] the dot, name[j] the dash, at least one
\* character before the dot, digits between them and a digit after the dash.
PaginationMatches(name) ==
    {m \in (1..Len(name)) \X (1..Len(name)) :
        /\ m[1] >= 2
        /\ name[m[1]] = "."
        /\ m[2] >= m[1] + 2
        /\ name[m[2]] = "-"
        /\ \A k \in (m[1] + 1)..(m[2] - 1) : IsDigit(name[k])
        /\ m[2] + 1 <= Len(name)
        /\ IsDigit(name[m[2] + 1])}

\* CSVFS._is_paginated_file
is_paginated_file(path) == PaginationMatches(PathName(path)) # {}

\* the longest run of digits of s that starts at position k
RECURSIVE DigitRun(_, _)
DigitRun(s, k) ==
    IF k <= Len(s) /\ IsDigit(s[k]) THEN <<s[k]>> \o DigitRun(s, k + 1) ELSE <<>>

\* CSVFS._parse_pagination: ok = FALSE stands for None.  The first group is
\* greedy, so the match with the rightmost dot is the one taken.
parse_pagination(path) ==
    LET name == PathName(path)
        ms   == PaginationMatches(name)
    IN  IF ms = {} THEN [ok |-> FALSE, table |-> <<>>, start_row |-> 0, end_row |-> 0]
        ELSE LET m == CHOOSE x \in ms : \A y \in ms : y[1] <= x[1]
             IN  [ok        |-> TRUE,
                  table     |-> SubSeq(name, 1, m[1] - 1),
                  start_row |-> IntOf(SubSeq(name, m[1] + 1, m[2] - 1)),
                  end_row   |-> IntOf(DigitRun(name, m[2] + 1))]

\* CSVFS._get_file_type
get_file_type(path) ==
    IF path \in virtual_dirs THEN "directory"
    ELSE IF StartsWith(path, PrefixStats) /\ EndsWith(path, SuffixJson) THEN "stats_file"
    ELSE IF StartsWith(path, PrefixData) /\ EndsWith(path, SuffixCsv)
    THEN IF is_paginated_file(path) THEN "paginated_csv_file" ELSE "csv_file"
    ELSE IF StartsWith(path, PrefixPaged)
    THEN IF is_paginated_file(path) THEN "paginated_leaf_directory"
         ELSE "paginated_directory"
    ELSE IF StartsWith(path, PrefixQueries) /\ EndsWith(path, SuffixSql) THEN "query_file"
    ELSE IF StartsWith(path, PrefixResults) /\ EndsWith(path, SuffixCsv) THEN "result_file"
    ELSE "unknown"

DirKinds == {"directory", "paginated_directory", "paginated_leaf_directory"}


(***************************************************************************)
(* The relational store (CSVFilesystemBackend.db) and Backend.query.       *)
(* db maps each table name to its dataframe [ok, columns, rows]; a cell    *)
(* and a column name are character sequences.  Null is the null marker     *)
(* (Python None) that Backend.query returns when the engine raises.        *)
(***************************************************************************)
Null == [ok |-> FALSE, columns |-> <<>>, rows |-> <<>>]

DataFrame(columns, rows) == [ok |-> TRUE, columns |-> columns, rows |-> rows]

TableT == <<"t">>

\* the table a user's CREATE TABLE makes
TableX == <<"x">>

ColumnC == <<"c">>

\* the mirror table of t.csv as ingested at mount: one column, n rows
MirrorTable(n) == DataFrame(<<ColumnC>>, [i \in 1..n |-> <<StrOf(i)>>])

NameLastModified == <<"L", "a", "s", "t", "M", "o", "d", "i", "f", "i", "e", "d">>

NameSqliteSequence == <<"s", "q", "l", "i", "t", "e", "_", "s", "e", "q", "u", "e", "n", "c", "e">>

\* the table LastModified (Id, FileName, TimeStamp) with the row of t.csv
LastModifiedTable ==
    DataFrame(<<<<"I", "d">>, <<"F", "i", "l", "e", "N", "a", "m", "e">>, <<"T", "i", "m", "e", "S", "t", "a", "m", "p">>>>,
              <<<<StrOf(1), TableT \o SuffixCsv, StrOf(1)>>>>)

\* the engine's table of AUTOINCREMENT counters, with the row of LastModified
SqliteSequenceTable ==
    DataFrame(<<<<"n", "a", "m", "e">>, <<"s", "e", "q">>>>, <<<<NameLastModified, StrOf(1)>>>>)

\* Backend.query(f'SELECT * FROM `{table}`')
SelectAll(d, table) == IF table \in DOMAIN d THEN d[table] ELSE Null

\* Backend.query(f'SELECT COUNT(*) FROM `{table}`'): ok = FALSE is None
SelectCount(d, table) ==
    IF table \in DOMAIN d
    THEN [ok |-> TRUE, count |-> Len(d[table].rows)]
    ELSE [ok |-> FALSE, count |-> 0]

\* Backend.query(f'SELECT * FROM `{table}` LIMIT {limit} OFFSET {offset}');
\* a negative LIMIT is no limit in SQLite
SelectPage(d, table, limit, offset) ==
    IF table \in DOMAIN d
    THEN LET rows == d[table].rows
             last == IF limit < 0 THEN Len(rows) ELSE Min(offset + limit, Len(rows))
         IN  DataFrame(d[table].columns, SubSeq(rows, offset + 1, last))
    ELSE Null

\* Backend.query(f'SELECT COUNT(*) as count FROM `{table}` WHERE rowid > {n}');
\* the rows of a table written by to_sql have the rowids 1, 2, ...
SelectCountRowidAbove(d, table, n) ==
    IF table \in DOMAIN d
    THEN [ok |-> TRUE, count |-> Max(Len(d[table].rows) - n, 0)]
    ELSE [ok |-> FALSE, count |-> 0]

\* Backend.query(sql) for SQL text a user wrote: the result (a dataframe or
\* Null) and the store afterwards.  "S" is SELECT * FROM t.  "D" is
\* DELETE FROM t and "C" is CREATE TABLE x (c): the engine runs the
\* statement, and read_sql_query then raises because the statement returns
\* no rows, so the caller gets None.  Anything else is rejected by the
\* engine.
query(d, sql) ==
    LET stmt == Strip(sql)
    IN  IF stmt = <<"S">> THEN [df |-> SelectAll(d, TableT), db |-> d]
        ELSE IF stmt = <<"D">> /\ TableT \in DOMAIN d
        THEN [df |-> Null,
              db |-> [d EXCEPT ![TableT] = DataFrame(d[TableT].columns, <<>>)]]
        ELSE IF stmt = <<"C">> /\ TableX \notin DOMAIN d
        THEN [df |-> Null,
              db |-> [t \in DOMAIN d \cup {TableX} |->
                         IF t = TableX THEN DataFrame(<<ColumnC>>, <<>>) ELSE d[t]]]
        ELSE [df |-> Null, db |-> d]

(***************************************************************************)
(* DataFrame.to_csv: the CSV text, with a header row; index = TRUE adds    *)
(* the row-index column (to_csv() without index=False).                    *)
(***************************************************************************)
RECURSIVE JoinFields(_)
JoinFields(fields) ==
    IF fields = <<>> THEN <<>>
    ELSE IF Len(fields) = 1 THEN Head(fields)
    ELSE Head(fields) \o <<",">> \o JoinFields(Tail(fields))

CsvLine(fields) == JoinFields(fields) \o <<"LF">>

RECURSIVE CsvRows(_, _, _)
CsvRows(rows, k, index) ==
    IF k > Len(rows) THEN <<>>
    ELSE CsvLine(IF index THEN <<StrOf(k - 1)>> \o rows[k] ELSE rows[k])
         \o CsvRows(rows, k + 1, index)

to_csv(df, index) ==
    CsvLine(IF index THEN <<<<>>>> \o df.columns ELSE df.columns)
    \o CsvRows(df.rows, 1, index)

(***************************************************************************)
(* A statistics document (an entry of CSVFS.stats) and json.dumps of it    *)
(* with indent=2.  The document keeps the counts the code computes; the    *)
(* file names and the two formatted times are left out.  kind tells the    *)
(* document of 'global' from a table's.                                    *)
(***************************************************************************)
StatsDoc(kind, rows, columns, size_bytes, lo, hi, files) ==
    [kind |-> kind, up_to_date |-> TRUE, rows |-> rows, columns |-> columns,
     size_bytes |-> size_bytes, min |-> lo, max |-> hi, files |-> files]

KeyUpToDate == <<"u", "p", "_", "t", "o", "_", "d", "a", "t", "e">>

KeyTotalRows == <<"t", "o", "t", "a", "l", "_", "r", "o", "w", "s">>

KeyTotalColumns == <<"t", "o", "t", "a", "l", "_", "c", "o", "l", "u", "m", "n", "s">>

KeySizeBytes == <<"s", "i", "z", "e", "_", "b", "y", "t", "e", "s">>

KeyRows == <<"r", "o", "w", "s">>

KeyColumns == <<"c", "o", "l", "u", "m", "n", "s">>

KeyMin == <<"m", "i", "n">>

KeyMax == <<"m", "a", "x">>

JsonBool(b) == IF b THEN <<"t", "r", "u", "e">> ELSE <<"f", "a", "l", "s", "e">>

JsonMember(key, value) == <<" ", " ", "\"">> \o key \o <<"\"", ":", " ">> \o value

RECURSIVE JsonMembers(_)
JsonMembers(members) ==
    IF members = <<>> THEN <<>>
    ELSE IF Len(members) = 1 THEN Head(members) \o <<"LF">>
    ELSE Head(members) \o <<",", "LF">> \o JsonMembers(Tail(members))

JsonObject(members) == <<"{", "LF">> \o JsonMembers(members) \o <<"}">>

json_dumps(doc) ==
    IF doc.kind = "global"
    THEN JsonObject(<<JsonMember(KeyUpToDate, JsonBool(doc.up_to_date)),
                      JsonMember(KeyTotalRows, StrOf(doc.rows)),
                      JsonMember(KeyTotalColumns, StrOf(doc.columns))>>)
    ELSE JsonObject(<<JsonMember(KeySizeBytes, StrOf(doc.size_bytes)),
                      JsonMember(KeyUpToDate, JsonBool(doc.up_to_date)),
                      JsonMember(KeyRows, StrOf(doc.rows)),
                      JsonMember(KeyColumns, StrOf(doc.columns)),
                      JsonMember(KeyMin, StrOf(doc.min)),
                      JsonMember(KeyMax, StrOf(doc.max))>>)

(***************************************************************************)
(* The query executor: CSVFS._execute_query.                               *)
(***************************************************************************)
\* StoreResult that keeps what is stored when the statement failed
StoreResult_skip_null(qr, name, df) ==
    IF df.ok THEN [n \in DOMAIN qr \cup {name} |-> IF n = name THEN df ELSE qr[n]]
    ELSE qr

\* self.query_results[query_name] = df
StoreResult(qr, name, df) ==
    [n \in DOMAIN qr \cup {name} |-> IF n = name THEN df ELSE qr[n]]

\* ExecuteStatements in which a failed statement does not overwrite a result
\* that is already stored
RECURSIVE ExecuteStatements_keep_success(_, _, _, _)
ExecuteStatements_keep_success(statements, qr, d, name) ==
    IF statements = <<>> THEN [query_results |-> qr, db |-> d]
    ELSE IF Len(Strip(Head(statements))) > 0
    THEN LET r == query(d, Head(statements))
         IN  ExecuteStatements_keep_success(
                 Tail(statements),
                 IF r.df.ok \/ name \notin DOMAIN qr
                 THEN [n \in DOMAIN qr \cup {name} |-> IF n = name THEN r.df ELSE qr[n]]
                 ELSE qr,
                 r.db, name)
    ELSE ExecuteStatements_keep_success(Tail(statements), qr, d, name)

\* for query in query_content.split(';'): if len(query.strip()) > 0: ...
RECURSIVE ExecuteStatements(_, _, _, _)
ExecuteStatements(statements, qr, d, name) ==
    IF statements = <<>> THEN [query_results |-> qr, db |-> d]
    ELSE IF Len(Strip(Head(statements))) > 0
    THEN LET r == query(d, Head(statements))
         IN  ExecuteStatements(Tail(statements), StoreResult(qr, name, r.df), r.db, name)
    ELSE ExecuteStatements(Tail(statements), qr, d, name)

\* CSVFS._execute_query(query_path), on the files vf, results qr and store d
execute_query(vf, qr, d, query_path) ==
    LET query_content == IF query_path \in DOMAIN vf THEN vf[query_path] ELSE <<>>
        query_name    == PathStem(query_path)
    IN  ExecuteStatements(Split(query_content, ";"), qr, d, query_name)


(***************************************************************************)
(* What the operations return: ret is the outcome of the last operation,   *)
(* with the arguments it was called with.  err is "OK" or the error the    *)
(* call raised; executed tells whether the call ran the query executor;    *)
(* again tells whether the operation before it was the same call (the same *)
(* operation on the same path with the same arguments).                    *)
(***************************************************************************)
Ret(op, path, args, err, val, executed) ==
    [op |-> op, path |-> path, args |-> args, err |-> err, val |-> val,
     executed |-> executed,
     again |-> (ret.op = op /\ ret.path = path /\ ret.args = args)]

NoArgs == [data |-> <<>>, offset |-> 0, size |-> 0, amode |-> "none"]

EmptyMap == [k \in {} |-> Null]

\* del mapping[key]
Remove(mapping, key) == [k \in DOMAIN mapping \ {key} |-> mapping[k]]

\* mapping[key] = value
Put(mapping, key, value) ==
    [k \in DOMAIN mapping \cup {key} |-> IF k = key THEN value ELSE mapping[k]]

(***************************************************************************)
(* CSVFS.getattr: err and the st_mode, st_nlink and st_size it reports.    *)
(***************************************************************************)
\* lines 53-60 and 121-128: st_ctime and st_mtime are self.csv.c_time for
\* every kind (st_atime, the time of the call, is left out)
Stat(mode, nlink, size) ==
    [err |-> "OK", st_mode |-> mode, st_nlink |-> nlink, st_size |-> size,
     st_ctime |-> c_time, st_mtime |-> c_time]

StatError(err) ==
    [err |-> err, st_mode |-> "none", st_nlink |-> 0, st_size |-> 0,
     st_ctime |-> 0, st_mtime |-> 0]

DirectorySize == 4096

\* the size getattr computes for /data/<T>.csv
getattr_csv_size(df) == Len(Encode(to_csv(df, TRUE)))

\* the size getattr computes for a page of a table
getattr_page_size(df) == Len(Encode(to_csv(df, FALSE)))

\* the size getattr computes for /sql/results/<N>.csv
getattr_result_size(df) == Len(Encode(to_csv(df, FALSE)))

\* getattr_query_size that counts characters
getattr_query_size_chars(content) == Len(content)

\* the size getattr computes for a query file
getattr_query_size(content) == Len(Encode(content))

\* the size getattr reports for a stats file before its first read
StatsDefaultSize == 4096 * 4096

\* the size getattr computes for /stats/<T>.json
getattr_stats_size(st, table_name) ==
    IF table_name \in DOMAIN st THEN Len(Encode(json_dumps(st[table_name])))
    ELSE StatsDefaultSize

getattr(vf, qr, st, d, path) ==
    LET file_type == get_file_type(path)
    IN  IF file_type \in DirKinds THEN Stat("S_IFDIR", 2, DirectorySize)
        ELSE IF file_type = "stats_file"
        THEN Stat("S_IFREG", 1, getattr_stats_size(st, PathStem(path)))
        ELSE IF file_type = "query_file"
        THEN IF path \in DOMAIN vf
             THEN Stat("S_IFREG", 1, getattr_query_size(vf[path]))
             ELSE StatError("ENOENT")
        ELSE IF file_type = "result_file"
        THEN LET result_name == PathStem(path)
             IN  IF result_name \in DOMAIN qr /\ qr[result_name].ok
                 THEN Stat("S_IFREG", 1, getattr_result_size(qr[result_name]))
                 ELSE StatError("ENOENT")
        ELSE IF file_type = "csv_file"
        THEN LET df == SelectAll(d, PathStem(path))
             IN  IF df.ok THEN Stat("S_IFREG", 1, getattr_csv_size(df))
                 ELSE StatError("ENOENT")
        ELSE IF file_type = "paginated_csv_file"
        THEN LET info == parse_pagination(path)
             IN  IF info.ok
                 THEN LET limit == info.end_row - info.start_row + 1
                          df    == SelectPage(d, info.table, limit, info.start_row)
                      IN  IF df.ok /\ Len(df.rows) > 0
                          THEN Stat("S_IFREG", 1, getattr_page_size(df))
                          ELSE StatError("ENOENT")
                 ELSE StatError("ENOENT")
        ELSE StatError("ENOENT")

(***************************************************************************)
(* CSVFS.read: the text of the object, then bytes[offset : offset+size].   *)
(***************************************************************************)
\* read_result_content without the test for the null marker
read_result_content_unchecked(qr, result_name) ==
    IF result_name \in DOMAIN qr THEN to_csv(qr[result_name], FALSE) ELSE TextNotFound

read_result_content(qr, result_name) ==
    IF result_name \in DOMAIN qr /\ qr[result_name].ok
    THEN to_csv(qr[result_name], FALSE)
    ELSE TextNotFound

read_query_content(vf, path) == IF path \in DOMAIN vf THEN vf[path] ELSE <<>>

read_content(vf, qr, d, path) ==
    LET file_type == get_file_type(path)
    IN  IF file_type = "csv_file"
        THEN LET table_name == PathStem(path)
                 df         == SelectAll(d, table_name)
             IN  IF df.ok THEN to_csv(df, FALSE)
                 ELSE TextErrorTable \o table_name \o <<"BACKTICK">>
        ELSE IF file_type = "paginated_csv_file"
        THEN LET info == parse_pagination(path)
             IN  IF info.ok
                 THEN LET limit == info.end_row - info.start_row + 1
                          df    == SelectPage(d, info.table, limit, info.start_row)
                      IN  IF df.ok THEN to_csv(df, FALSE)
                          ELSE TextErrorPaged \o info.table \o TextRows
                               \o StrOf(info.start_row) \o <<"-">> \o StrOf(info.end_row)
                 ELSE TextInvalidPagination
        ELSE IF file_type = "query_file" THEN read_query_content(vf, path)
        ELSE IF file_type = "result_file" THEN read_result_content(qr, PathStem(path))
        ELSE <<>>

\* read_window that slices the characters instead of the bytes
read_window_chars(content, size, offset) == Slice(content, offset, offset + size)

\* content_bytes[offset:offset+size]
read_window(content, size, offset) == Slice(Encode(content), offset, offset + size)

read(vf, qr, d, path, size, offset) ==
    read_window(read_content(vf, qr, d, path), size, offset)

(***************************************************************************)
(* CSVFS.readdir: the set of entry names (their order is not modelled).    *)
(***************************************************************************)
\* get_tables without the WHERE clause
get_tables_unfiltered(d) == DOMAIN d

\* SELECT name FROM sqlite_master WHERE name != "LastModified" AND name != "sqlite_sequence"
get_tables(d) == {t \in DOMAIN d : t # NameLastModified /\ t # NameSqliteSequence}

get_paginated_directories(d) ==
    {NamePaged \o table : table \in
        {t \in get_tables(d) : SelectCount(d, t).ok /\ SelectCount(d, t).count > PAGE_SIZE}}

\* PageStarts with a step of PAGE_SIZE + 1
PageStarts_wide_step(total_rows) == {s \in 0..(total_rows - 1) : s % (PAGE_SIZE + 1) = 0}

\* range(0, total_rows, PAGE_SIZE)
PageStarts(total_rows) == {s \in 0..(total_rows - 1) : s % PAGE_SIZE = 0}

readdir(vf, qr, d, path) ==
    LET dots == {<<".">>, <<".", ".">>}
    IN  IF path = DirRoot
        THEN dots \cup {<<"d", "a", "t", "a">>, <<"s", "q", "l">>, <<"s", "t", "a", "t", "s">>}
        ELSE IF path = DirData
        THEN dots
             \cup {t \o SuffixCsv : t \in {x \in get_tables(d) : SelectCount(d, x).count <= PAGE_SIZE}}
             \cup get_paginated_directories(d)
        ELSE IF StartsWith(path, PrefixPaged)
        THEN IF get_file_type(path) = "paginated_directory"
             THEN LET table_name == SliceFrom(PathName(path), Len(NamePaged))
                      count_df   == SelectCount(d, table_name)
                  IN  IF count_df.ok
                      THEN dots \cup
                           {table_name \o <<".">> \o StrOf(s + 1) \o <<"-">>
                              \o StrOf(Min(s + PAGE_SIZE - 1, count_df.count - 1) + 1) :
                              s \in PageStarts(count_df.count)}
                      ELSE dots
             ELSE IF get_file_type(path) = "paginated_leaf_directory"
             THEN LET info == parse_pagination(path)
                  IN  IF info.ok
                      THEN dots \cup {info.table \o <<".">> \o StrOf(info.start_row)
                                      \o <<"-">> \o StrOf(info.end_row) \o SuffixCsv}
                      ELSE dots
             ELSE dots
        ELSE IF path = DirSql
        THEN dots \cup {<<"q", "u", "e", "r", "i", "e", "s">>, <<"r", "e", "s", "u", "l", "t", "s">>}
        ELSE IF path = DirQueries
        THEN dots \cup {PathName(p) : p \in {f \in DOMAIN vf : StartsWith(f, PrefixQueries)}}
        ELSE IF path = DirResults
        THEN dots \cup {n \o SuffixCsv : n \in DOMAIN qr}
        ELSE IF path = DirStats
        THEN dots \cup {t \o SuffixJson : t \in get_tables(d)} \cup {NameGlobal \o SuffixJson}
        ELSE dots


(***************************************************************************)
(* CSVFS._update_stats: the statistics after materializing the document    *)
(* of table_name, or the exception the call raises.                        *)
(***************************************************************************)
\* int(query('SELECT COUNT(*) FROM `t`').iloc[0, 0])
row_count(d, table) == SelectCount(d, table).count

\* len(query('SELECT * FROM `t` LIMIT 1')): the rows of the dataframe
column_count(d, table) == Len(SelectPage(d, table, 1, 0).rows)

\* total_rows of the loop of lines 478-483
RECURSIVE total_rows(_, _)
total_rows(tables, d) ==
    IF tables = {} THEN 0
    ELSE LET t == CHOOSE x \in tables : TRUE
         IN  row_count(d, t) + total_rows(tables \ {t}, d)

\* total_columns of the loop of lines 478-483
RECURSIVE total_columns(_, _)
total_columns(tables, d) ==
    IF tables = {} THEN 0
    ELSE LET t == CHOOSE x \in tables : TRUE
         IN  column_count(d, t) + total_columns(tables \ {t}, d)

\* the values of the first column, as integers
ColumnValues(data) == {IntOf(data.rows[i][1]) : i \in 1..Len(data.rows)}

ColumnMin(data) == CHOOSE v \in ColumnValues(data) : \A w \in ColumnValues(data) : v <= w

ColumnMax(data) == CHOOSE v \in ColumnValues(data) : \A w \in ColumnValues(data) : v >= w

\* lines 507-508: self.csv.typists[table_name].schema[column] is there for
\* every column of the table
HasSchema(table_name, data) ==
    /\ table_name \in DOMAIN typists
    /\ \A i \in 1..Len(data.columns) : data.columns[i] \in DOMAIN typists[table_name]

StatsOk(st) == [err |-> "OK", stats |-> st]

StatsError(err, st) == [err |-> err, stats |-> st]

\* update_stats that computes the document of 'global' anew on every read
update_stats_recompute(st, d, table_name) ==
    IF table_name = NameGlobal
    THEN LET tables == get_tables(d)
         IN  StatsOk(Put(st, table_name,
                 StatsDoc("global", total_rows(tables, d),
                          total_columns(tables, d), 0, 0, 0, tables)))
    ELSE IF table_name \in DOMAIN st THEN StatsOk(st)
    ELSE LET data == SelectAll(d, table_name)
         IN  IF ~data.ok THEN StatsError("AttributeError", st)
             ELSE IF ~HasSchema(table_name, data) THEN StatsError("KeyError", st)
             ELSE IF data.rows = <<>> THEN StatsError("ValueError", st)
             ELSE IF table_name \o SuffixCsv \notin DOMAIN m_cache
             THEN StatsError("KeyError", st)
             ELSE StatsOk(Put(st, table_name,
                      StatsDoc("table", row_count(d, table_name), Len(data.columns),
                               Len(Encode(to_csv(data, TRUE))),
                               ColumnMin(data), ColumnMax(data), {})))

update_stats(st, d, table_name) ==
    IF table_name = NameGlobal
    THEN IF table_name \in DOMAIN st /\ st[table_name].up_to_date THEN StatsOk(st)
         ELSE LET tables == get_tables(d)
              IN  StatsOk(Put(st, table_name,
                      StatsDoc("global", total_rows(tables, d),
                               total_columns(tables, d), 0, 0, 0, tables)))
    ELSE IF table_name \in DOMAIN st THEN StatsOk(st)
    ELSE LET data == SelectAll(d, table_name)
         IN  IF ~data.ok THEN StatsError("AttributeError", st)
             ELSE IF ~HasSchema(table_name, data) THEN StatsError("KeyError", st)
             ELSE IF data.rows = <<>> THEN StatsError("ValueError", st)
             ELSE IF table_name \o SuffixCsv \notin DOMAIN m_cache
             THEN StatsError("KeyError", st)
             ELSE StatsOk(Put(st, table_name,
                      StatsDoc("table", row_count(d, table_name), Len(data.columns),
                               Len(Encode(to_csv(data, TRUE))),
                               ColumnMin(data), ColumnMax(data), {})))

(***************************************************************************)
(* CSVFS.access: "OK" for the return of 0, or the errno raised.  amode is  *)
(* one of os.F_OK, os.R_OK, os.W_OK, os.X_OK, or a combination of bits,    *)
(* which equals none of the four.                                          *)
(***************************************************************************)
FileKinds ==
    {"query_file", "result_file", "csv_file", "paginated_csv_file", "stats_file"}

AccessModes == {"F_OK", "R_OK", "W_OK", "X_OK", "R_OK|W_OK"}

\* access_query_exists that looks the file up
access_query_exists_lookup(vf, path) == path \in DOMAIN vf

\* line 363: query files can always be created
access_query_exists(vf, path) == TRUE

access(vf, qr, d, path, amode) ==
    LET file_type == get_file_type(path)
    IN  IF file_type \in DirKinds THEN "OK"
        ELSE IF file_type \in FileKinds
        THEN IF amode = "F_OK"
             THEN IF file_type = "query_file"
                  THEN IF access_query_exists(vf, path) THEN "OK" ELSE "ENOENT"
                  ELSE IF file_type = "result_file"
                  THEN IF PathStem(path) \in DOMAIN qr THEN "OK" ELSE "ENOENT"
                  ELSE IF file_type = "paginated_csv_file"
                  THEN LET info == parse_pagination(path)
                           df   == SelectCountRowidAbove(d, info.table, info.start_row)
                       IN  IF info.ok /\ df.ok /\ df.count > 0 THEN "OK" ELSE "ENOENT"
                  ELSE "OK"
             ELSE IF amode = "R_OK" THEN "OK"
             ELSE IF amode = "W_OK"
             THEN IF file_type = "query_file" THEN "OK" ELSE "EACCES"
             ELSE IF amode = "X_OK" THEN "EACCES"
             ELSE "ENOENT"
        ELSE "ENOENT"

(***************************************************************************)
(* CSVFS.write, create, truncate and unlink on the state.                  *)
(***************************************************************************)
\* write_content with the tail taken from offset: the text is inserted,
\* nothing is overwritten
write_content_insert(current_content, new_content, offset) ==
    IF offset = 0 THEN new_content
    ELSE LET padded == IF Len(current_content) < offset
                       THEN current_content \o Repeat("NUL", offset - Len(current_content))
                       ELSE current_content
         IN  Slice(padded, 0, offset) \o new_content \o SliceFrom(padded, offset)

\* lines 261-267: the content of the file after writing new_content at offset
write_content(current_content, new_content, offset) ==
    IF offset = 0 THEN new_content
    ELSE LET padded == IF Len(current_content) < offset
                       THEN current_content \o Repeat("NUL", offset - Len(current_content))
                       ELSE current_content
         IN  Slice(padded, 0, offset) \o new_content
             \o SliceFrom(padded, offset + Len(new_content))

\* is_complete_query without the strip
is_complete_query_unstripped(content) == EndsWith(content, <<";">>)

\* line 270: self.virtual_files[path].strip().endswith(';')
is_complete_query(content) == EndsWith(Strip(content), <<";">>)

\* lines 298-301
truncate_content(content, length) ==
    IF Len(content) > length THEN Slice(content, 0, length)
    ELSE content \o Repeat("NUL", length - Len(content))

\* unlink that leaves the result of the query where it is
unlink_result_kept(qr, path) == qr

\* lines 313-315: del self.query_results[query_name], when it is there
unlink_result(qr, path) == Remove(qr, PathStem(path))

Write(path, data, offset) ==
    LET args == [data |-> data, offset |-> offset, size |-> 0, amode |-> "none"]
    IN  IF get_file_type(path) # "query_file"
        THEN /\ ret' = Ret("write", path, args, "EACCES", 0, FALSE)
             /\ UNCHANGED <<virtual_files, query_results, stats, db, mount_vars>>
        ELSE LET vf0         == IF path \in DOMAIN virtual_files THEN virtual_files
                                ELSE Put(virtual_files, path, <<>>)
                 new_content == Decode(data)
             IN  IF ~new_content.ok
                 THEN /\ virtual_files' = vf0
                      /\ ret' = Ret("write", path, args, "UnicodeDecodeError", 0, FALSE)
                      /\ UNCHANGED <<query_results, stats, db, mount_vars>>
                 ELSE LET content == write_content(vf0[path], new_content.text, offset)
                          vf1     == Put(vf0, path, content)
                          run     == is_complete_query(content)
                          after   == IF run THEN execute_query(vf1, query_results, db, path)
                                     ELSE [query_results |-> query_results, db |-> db]
                      IN  /\ virtual_files' = vf1
                          /\ query_results' = after.query_results
                          /\ db' = after.db
                          /\ ret' = Ret("write", path, args, "OK", Len(data), run)
                          /\ UNCHANGED <<stats, mount_vars>>

\* Create that makes the file whatever the kind of the path
Create_anywhere(path) ==
    /\ virtual_files' = Put(virtual_files, path, <<>>)
    /\ ret' = Ret("create", path, NoArgs, "OK", 0, FALSE)
    /\ UNCHANGED <<query_results, stats, db, mount_vars>>

Create(path) ==
    IF get_file_type(path) = "query_file"
    THEN /\ virtual_files' = Put(virtual_files, path, <<>>)
         /\ ret' = Ret("create", path, NoArgs, "OK", 0, FALSE)
         /\ UNCHANGED <<query_results, stats, db, mount_vars>>
    ELSE /\ ret' = Ret("create", path, NoArgs, "EACCES", 0, FALSE)
         /\ UNCHANGED <<virtual_files, query_results, stats, db, mount_vars>>

Truncate(path, length) ==
    /\ virtual_files' =
          IF get_file_type(path) = "query_file" /\ path \in DOMAIN virtual_files
          THEN Put(virtual_files, path, truncate_content(virtual_files[path], length))
          ELSE virtual_files
    /\ ret' = Ret("truncate", path, [data |-> <<>>, offset |-> 0, size |-> length, amode |-> "none"],
                  "OK", 0, FALSE)
    /\ UNCHANGED <<query_results, stats, db, mount_vars>>

\* Unlink that removes every query file of the same name
Unlink_by_name(path) ==
    IF get_file_type(path) = "query_file" /\ path \in DOMAIN virtual_files
    THEN /\ virtual_files' =
               [p \in {f \in DOMAIN virtual_files : PathName(f) # PathName(path)} |->
                   virtual_files[p]]
         /\ query_results' = unlink_result(query_results, path)
         /\ ret' = Ret("unlink", path, NoArgs, "OK", 0, FALSE)
         /\ UNCHANGED <<stats, db, mount_vars>>
    ELSE /\ ret' = Ret("unlink", path, NoArgs, "EACCES", 0, FALSE)
         /\ UNCHANGED <<virtual_files, query_results, stats, db, mount_vars>>

Unlink(path) ==
    IF get_file_type(path) = "query_file" /\ path \in DOMAIN virtual_files
    THEN /\ virtual_files' = Remove(virtual_files, path)
         /\ query_results' = unlink_result(query_results, path)
         /\ ret' = Ret("unlink", path, NoArgs, "OK", 0, FALSE)
         /\ UNCHANGED <<stats, db, mount_vars>>
    ELSE /\ ret' = Ret("unlink", path, NoArgs, "EACCES", 0, FALSE)
         /\ UNCHANGED <<virtual_files, query_results, stats, db, mount_vars>>

(***************************************************************************)
(* The read-only operations, as steps that record what they return.        *)
(***************************************************************************)
Getattr(path) ==
    LET st == getattr(virtual_files, query_results, stats, db, path)
    IN  /\ ret' = Ret("getattr", path, NoArgs, st.err, st, FALSE)
        /\ UNCHANGED <<virtual_files, query_results, stats, db, mount_vars>>

Readdir(path) ==
    /\ ret' = Ret("readdir", path, NoArgs, "OK",
                  readdir(virtual_files, query_results, db, path), FALSE)
    /\ UNCHANGED <<virtual_files, query_results, stats, db, mount_vars>>

\* Read that makes the query file it is asked for, as write does
Read_setdefault(path, size, offset) ==
    LET args == [data |-> <<>>, offset |-> offset, size |-> size, amode |-> "none"]
        vf0  == IF get_file_type(path) = "query_file" /\ path \notin DOMAIN virtual_files
                THEN Put(virtual_files, path, <<>>)
                ELSE virtual_files
    IN  /\ ret' = Ret("read", path, args, "OK",
                      read(vf0, query_results, db, path, size, offset), FALSE)
        /\ virtual_files' = vf0
        /\ UNCHANGED <<query_results, stats, db, mount_vars>>

Read(path, size, offset) ==
    LET args == [data |-> <<>>, offset |-> offset, size |-> size, amode |-> "none"]
    IN  IF get_file_type(path) = "stats_file"
        THEN LET table_name == PathStem(path)
                 updated    == update_stats(stats, db, table_name)
             IN  /\ stats' = updated.stats
                 /\ ret' = IF updated.err = "OK"
                           THEN Ret("read", path, args, "OK",
                                    read_window(json_dumps(updated.stats[table_name]),
                                                size, offset), FALSE)
                           ELSE Ret("read", path, args, updated.err, <<>>, FALSE)
                 /\ UNCHANGED <<virtual_files, query_results, db, mount_vars>>
        ELSE /\ ret' = Ret("read", path, args, "OK",
                           read(virtual_files, query_results, db, path, size, offset), FALSE)
             /\ UNCHANGED <<virtual_files, query_results, stats, db, mount_vars>>

Access(path, amode) ==
    LET err == access(virtual_files, query_results, db, path, amode)
    IN  /\ ret' = Ret("access", path,
                      [data |-> <<>>, offset |-> 0, size |-> 0, amode |-> amode],
                      err, 0, FALSE)
        /\ UNCHANGED <<virtual_files, query_results, stats, db, mount_vars>>

\* the resolver applied to a path, as every operation applies it first
Resolve(path) ==
    /\ ret' = Ret("_get_file_type", path, NoArgs, "OK", get_file_type(path), FALSE)
    /\ UNCHANGED <<virtual_files, query_results, stats, db, mount_vars>>

(***************************************************************************)
(* CSVFS.open, flush, release and fsync: "OK" for the return of 0, or the  *)
(* errno raised.                                                           *)
(***************************************************************************)
\* lines 323-328
open(path) == IF get_file_type(path) \in FileKinds THEN "OK" ELSE "EACCES"

\* lines 330-335: return 0, whatever the path
flush(path) == "OK"

\* lines 337-342: return 0, whatever the path
release(path) == "OK"

\* lines 344-349: return 0, whatever the path
fsync(path) == "OK"

Open(path) ==
    /\ ret' = Ret("open", path, NoArgs, open(path), 0, FALSE)
    /\ UNCHANGED <<virtual_files, query_results, stats, db, mount_vars>>

Flush(path) ==
    /\ ret' = Ret("flush", path, NoArgs, flush(path), 0, FALSE)
    /\ UNCHANGED <<virtual_files, query_results, stats, db, mount_vars>>

Release(path) ==
    /\ ret' = Ret("release", path, NoArgs, release(path), 0, FALSE)
    /\ UNCHANGED <<virtual_files, query_results, stats, db, mount_vars>>

Fsync(path) ==
    /\ ret' = Ret("fsync", path, NoArgs, fsync(path), 0, FALSE)
    /\ UNCHANGED <<virtual_files, query_results, stats, db, mount_vars>>

(***************************************************************************)
(* The paths and inputs the operations are called with.                    *)
(***************************************************************************)
QueryQ == <<"/", "s", "q", "l", "/", "q", "u", "e", "r", "i", "e", "s", "/", "q", ".", "s", "q", "l">>

QueryNestedQ == <<"/", "s", "q", "l", "/", "q", "u", "e", "r", "i", "e", "s", "/", "a", "/", "q", ".", "s", "q", "l">>

QueryR == <<"/", "s", "q", "l", "/", "q", "u", "e", "r", "i", "e", "s", "/", "r", ".", "s", "q", "l">>

ResultQ == <<"/", "s", "q", "l", "/", "r", "e", "s", "u", "l", "t", "s", "/", "q", ".", "c", "s", "v">>

ResultR == <<"/", "s", "q", "l", "/", "r", "e", "s", "u", "l", "t", "s", "/", "r", ".", "c", "s", "v">>

CsvT == <<"/", "d", "a", "t", "a", "/", "t", ".", "c", "s", "v">>

CsvX == <<"/", "d", "a", "t", "a", "/", "x", ".", "c", "s", "v">>

PageT12 == <<"/", "d", "a", "t", "a", "/", "p", "a", "g", "e", "d", "_", "t", "/", "t", ".", "1", "-", "2", ".", "c", "s", "v">>

PageT01 == <<"/", "d", "a", "t", "a", "/", "p", "a", "g", "e", "d", "_", "t", "/", "t", ".", "0", "-", "1", ".", "c", "s", "v">>

PageT56 == <<"/", "d", "a", "t", "a", "/", "p", "a", "g", "e", "d", "_", "t", "/", "t", ".", "5", "-", "6", ".", "c", "s", "v">>

DirPagedT == <<"/", "d", "a", "t", "a", "/", "p", "a", "g", "e", "d", "_", "t">>

DirLeafT12 == <<"/", "d", "a", "t", "a", "/", "p", "a", "g", "e", "d", "_", "t", "/", "t", ".", "1", "-", "2">>

PathUnknown == <<"/", "s", "q", "l", "/", "q", ".", "t", "x", "t">>


StatsT == <<"/", "s", "t", "a", "t", "s", "/", "t", ".", "j", "s", "o", "n">>

StatsX == DirStats \o <<"/">> \o TableX \o SuffixJson

StatsGlobal == <<"/", "s", "t", "a", "t", "s", "/", "g", "l", "o", "b", "a", "l", ".", "j", "s", "o", "n">>

CsvPagedPrefix == <<"/", "d", "a", "t", "a", "/", "p", "a", "g", "e", "d", "_", "t", ".", "c", "s", "v">>

CsvT12x == <<"/", "d", "a", "t", "a", "/", "t", ".", "1", "-", "2", "x", ".", "c", "s", "v">>

CsvT12Csv == <<"/", "d", "a", "t", "a", "/", "t", ".", "1", "-", "2", ".", "c", "s", "v", ".", "c", "s", "v">>

CsvT1Dash == <<"/", "d", "a", "t", "a", "/", "t", ".", "1", "-", ".", "c", "s", "v">>

CsvDot12 == <<"/", "d", "a", "t", "a", "/", ".", "1", "-", "2", ".", "c", "s", "v">>

CsvAB12 == <<"/", "d", "a", "t", "a", "/", "a", ".", "b", ".", "1", "-", "2", ".", "c", "s", "v">>

CsvT12 == <<"/", "d", "a", "t", "a", "/", "t", ".", "1", "-", "2", ".", "c", "s", "v">>

DirLeafT12x == <<"/", "d", "a", "t", "a", "/", "p", "a", "g", "e", "d", "_", "t", "/", "t", ".", "1", "-", "2", "x">>

PathDataT == <<"/", "d", "a", "t", "a", "/", "t">>

PathStatsCsv == <<"/", "s", "t", "a", "t", "s", "/", "t", ".", "c", "s", "v">>

PathQuerySlash == <<"/", "s", "q", "l", "/", "q", "u", "e", "r", "i", "e", "s", "/", "q", ".", "s", "q", "l", "/">>

\* paths of every kind the resolver tells apart, and paths on which two of
\* its rules compete
ProbePaths ==
    {DirRoot, DirData, DirSql, DirQueries, DirResults, DirStats, DirSchemas,
     StatsT, StatsGlobal, CsvT, CsvX, CsvPagedPrefix, CsvT12x, CsvT12Csv,
     CsvT1Dash, CsvDot12, CsvAB12, CsvT12, PageT12, DirPagedT, DirLeafT12,
     DirLeafT12x, QueryQ, QueryNestedQ, ResultQ, PathUnknown, PathDataT,
     PathStatsCsv, PathQuerySlash}

\* one path of every kind, for the operations that change the state
MutatePaths ==
    {DirQueries, StatsT, CsvT, PageT12, DirPagedT, DirLeafT12, QueryQ,
     ResultQ, PathUnknown}

\* the paths access is asked about
AccessPaths == MutatePaths \cup {DirRoot, DirData, StatsGlobal, PageT56, PathDataT}

QueryPaths == {QueryQ, QueryNestedQ, QueryR}

\* a read large enough to return any object of the model whole
BigRead == 4096

ReadSizes == {1, BigRead}

Offsets == 0..MaxOff

\* what a write hands over, byte by byte: SQL text, whitespace, the
\* two-byte character, nothing, and a byte string that is not UTF-8
DataBytes ==
    {<<>>, <<"S">>, <<";">>, <<" ">>, <<"0xC3", "0xA9">>, <<"0xC3">>}

\* whole batches, written at offset 0 ("U+E9" is no SQL: the engine rejects it)
BatchBytes ==
    {<<"S", ";">>, <<"D", ";">>, <<"D", ";", "S", ";">>, <<"S", ";", "D", ";">>,
     <<"0xC3", "0xA9", ";">>, <<"0xC3", "0xA9", ";", "S", ";">>,
     <<"S", ";", "0xC3", "0xA9", ";">>, <<";">>, <<" ", ";", " ">>, <<"S">>,
     <<"S", ";", " ", ";">>}

(***************************************************************************)
(* The source directory.  source.files maps the name of each file in it to *)
(* [mtime, rows, parses, declares]: the modification time, the number of   *)
(* data rows of a CSV file (its one column c holds 1, 2, ...), whether     *)
(* pandas.read_csv can parse it (an empty file raises EmptyDataError under *)
(* every encoding), and for the schema file the type it declares for the   *)
(* column c.  source.now is the clock that stamps the files.               *)
(***************************************************************************)
\* latest time of the source directory's clock
MaxTime == 3

FileCsv == TableT \o SuffixCsv

FileSchema == FileCsv \o <<".", "s", "c", "h", "e", "m", "a">>

SourceFile(mtime, rows, parses) ==
    [mtime |-> mtime, rows |-> rows, parses |-> parses, declares |-> "none"]

\* the schema file, whose text is 'c:' and the name of a type
SchemaFile(mtime, declares) ==
    [mtime |-> mtime, rows |-> 0, parses |-> TRUE, declares |-> declares]

(***************************************************************************)
(* The Typist.  A column is the sequence of its cells, a cell the text     *)
(* str() gives for its value, the empty text for a null.  A type is named  *)
(* as _save_typists names it: "int", "float", "bool", "date" (the object   *)
(* type(datetime)) and "str".                                              *)
(***************************************************************************)
\* a Typist's entry for a column (Typist.schema[col])
SchemaEntry(type, inferred) == [type |-> type, inferred |-> inferred]

\* lines 238-244: schema_lookup
schema_lookup(column_type) ==
    CASE column_type = "INT"   -> "int"
      [] column_type = "FLOAT" -> "float"
      [] column_type = "BOOL"  -> "bool"
      [] column_type = "DATE"  -> "date"
      [] column_type = "STR"   -> "str"

\* lines 237-249: the schema the file's text declares
DeclaredSchema(file) == [col \in {ColumnC} |-> schema_lookup(file.declares)]

\* Typist.__init__
Typist(schema) == [col \in DOMAIN schema |-> SchemaEntry(schema[col], FALSE)]

UpperChars == <<"A", "E", "F", "L", "N", "O", "R", "S", "T", "U", "Y">>

LowerChars == <<"a", "e", "f", "l", "n", "o", "r", "s", "t", "u", "y">>

\* str.lower(), on the letters of the model
Lower(text) ==
    [i \in 1..Len(text) |->
        IF \E k \in 1..Len(UpperChars) : UpperChars[k] = text[i]
        THEN LowerChars[CHOOSE k \in 1..Len(UpperChars) : UpperChars[k] = text[i]]
        ELSE text[i]]

\* the keys of lookup in _infer_bool
Lexicon ==
    {<<"t", "r", "u", "e">>, <<"f", "a", "l", "s", "e">>, <<"y", "e", "s">>, <<"n", "o">>,
     <<"1">>, <<"0">>, <<"t">>, <<"f">>, <<"y">>, <<"n">>}

\* the keys lookup maps to True
TrueWords == {<<"t", "r", "u", "e">>, <<"y", "e", "s">>, <<"1">>, <<"t">>, <<"y">>}

\* col.dropna(): the values of the cells that are not null
DropNa(column) == {column[i] : i \in {j \in 1..Len(column) : column[j] # <<>>}}

AllDigits(text) == \A i \in 1..Len(text) : IsDigit(text[i])

\* pd.to_numeric takes the cell: digits, with at most one point
IsNumber(cell) ==
    LET points == {i \in 1..Len(cell) : cell[i] = "."}
    IN  /\ \E i \in 1..Len(cell) : IsDigit(cell[i])
        /\ Cardinality(points) <= 1
        /\ \A i \in 1..Len(cell) : IsDigit(cell[i]) \/ cell[i] = "."

\* the digits of a number before its point
IntPart(cell) ==
    LET points == {i \in 1..Len(cell) : cell[i] = "."}
    IN  IF points = {} THEN cell ELSE SubSeq(cell, 1, (CHOOSE i \in points : TRUE) - 1)

\* the digits of a number after its point
FracPart(cell) ==
    LET points == {i \in 1..Len(cell) : cell[i] = "."}
    IN  IF points = {} THEN <<>> ELSE SubSeq(cell, (CHOOSE i \in points : TRUE) + 1, Len(cell))

RECURSIVE StripZeros(_)
StripZeros(digits) ==
    IF digits # <<>> /\ digits[Len(digits)] = "0"
    THEN StripZeros(SubSeq(digits, 1, Len(digits) - 1))
    ELSE digits

\* value % 1 == 0
IsWhole(cell) == StripZeros(FracPart(cell)) = <<>>

\* str() of the number as an integer, the part after the point cut off
IntText(cell) == StrOf(IntOf(IntPart(cell)))

\* str() of the number as a float
FloatText(cell) ==
    IntText(cell) \o <<".">> \o
        (IF StripZeros(FracPart(cell)) = <<>> THEN <<"0">> ELSE StripZeros(FracPart(cell)))

\* a column of numbers, as pandas.read_csv reads a column whose cells are
\* all numbers or empty
NumericColumn(column) ==
    DropNa(column) # {} /\ \A v \in DropNa(column) : IsNumber(v)

\* line 357: the cells of a column as pandas.read_csv reads them: a column of
\* numbers is a column of floats when a cell is empty or has a point, of
\* ints when not; any other column keeps the text of its cells
read_csv_column(column) ==
    IF ~NumericColumn(column) THEN column
    ELSE IF \E i \in 1..Len(column) : column[i] = <<>> \/ FracPart(column[i]) # <<>>
                                      \/ \E j \in 1..Len(column[i]) : column[i][j] = "."
         THEN [i \in 1..Len(column) |->
                  IF column[i] = <<>> THEN <<>> ELSE FloatText(column[i])]
         ELSE [i \in 1..Len(column) |-> IntText(column[i])]

\* the three formats of _infer_date without a time of day, in the order
\* they are tried
DateFormats == <<"%m/%d/%Y", "%m-%d-%Y", "%Y-%m-%d">>

YearOf(cell, format) ==
    IF format = "%Y-%m-%d" THEN SubSeq(cell, 1, 4) ELSE SubSeq(cell, 7, 10)

MonthOf(cell, format) ==
    IF format = "%Y-%m-%d" THEN SubSeq(cell, 6, 7) ELSE SubSeq(cell, 1, 2)

DayOf(cell, format) ==
    IF format = "%Y-%m-%d" THEN SubSeq(cell, 9, 10) ELSE SubSeq(cell, 4, 5)

\* pd.to_datetime(cell, format=format) takes the cell
ParsesAs(cell, format) ==
    LET sep == IF format = "%m/%d/%Y" THEN "/" ELSE "-"
    IN  /\ Len(cell) = 10
        /\ AllDigits(YearOf(cell, format))
        /\ AllDigits(MonthOf(cell, format))
        /\ AllDigits(DayOf(cell, format))
        /\ \A i \in 1..10 : ~IsDigit(cell[i]) => cell[i] = sep
        /\ IntOf(MonthOf(cell, format)) \in 1..12
        /\ IntOf(DayOf(cell, format)) \in 1..31

\* str() of the Timestamp pd.to_datetime makes of the cell
TimestampText(cell, format) ==
    YearOf(cell, format) \o <<"-">> \o MonthOf(cell, format) \o <<"-">> \o DayOf(cell, format)
        \o <<" ", "0", "0", ":", "0", "0", ":", "0", "0">>

TextTrue == <<"T", "r", "u", "e">>

TextFalse == <<"F", "a", "l", "s", "e">>

TextNan == <<"n", "a", "n">>

\* what an inference returns: the column and its type, or an exception
Inferred(type, column) == [ok |-> TRUE, type |-> type, col |-> column]

NotInferred == [ok |-> FALSE, type |-> "none", col |-> <<>>]

\* _infer_bool, which raises, or returns None, when the column is no
\* boolean column; a null becomes False
infer_bool(column) ==
    LET unique_vals == DropNa(column)
    IN  IF Cardinality(unique_vals) = 2 /\ \A v \in unique_vals : Lower(v) \in Lexicon
        THEN Inferred("bool",
                      [i \in 1..Len(column) |->
                          IF column[i] # <<>> /\ Lower(column[i]) \in TrueWords
                          THEN TextTrue ELSE TextFalse])
        ELSE NotInferred

\* _infer_number: the nulls are dropped for the conversion and are nulls
\* again when the column is put back
infer_number(column) ==
    IF \A v \in DropNa(column) : IsNumber(v)
    THEN IF \A v \in DropNa(column) : IsWhole(v)
         THEN Inferred("int", [i \in 1..Len(column) |->
                                  IF column[i] = <<>> THEN <<>> ELSE IntText(column[i])])
         ELSE Inferred("float", [i \in 1..Len(column) |->
                                    IF column[i] = <<>> THEN <<>> ELSE FloatText(column[i])])
    ELSE NotInferred

\* _infer_date: the first format that takes every cell
infer_date(column) ==
    LET fits == {k \in 1..Len(DateFormats) :
                    \A v \in DropNa(column) : ParsesAs(v, DateFormats[k])}
    IN  IF fits = {} THEN NotInferred
        ELSE LET format == DateFormats[CHOOSE k \in fits : \A other \in fits : k <= other]
             IN  Inferred("date", [i \in 1..Len(column) |->
                                      IF column[i] = <<>> THEN <<>>
                                      ELSE TimestampText(column[i], format)])

\* lines 139-163 with the numeric strategy tried before the boolean one
infer_type_number_first(column) ==
    IF infer_number(column).ok THEN infer_number(column)
    ELSE IF infer_bool(column).ok THEN infer_bool(column)
    ELSE IF infer_date(column).ok THEN infer_date(column)
    ELSE Inferred("str", column)

\* lines 139-163: the first strategy that succeeds, str when none does
infer_type(column) ==
    IF infer_bool(column).ok THEN infer_bool(column)
    ELSE IF infer_number(column).ok THEN infer_number(column)
    ELSE IF infer_date(column).ok THEN infer_date(column)
    ELSE Inferred("str", column)

\* line 131: df[col].astype(type).  type(datetime) is the class type, which
\* pandas takes for no dtype; a column of numbers becomes ints unless it has
\* a null, and floats; int() and float() refuse any other text; bool() is
\* False for the number zero only; str() of a null is 'nan'
astype(type, column) ==
    CASE type = "date" -> NotInferred
      [] type = "int" ->
            IF NumericColumn(column) /\ \A i \in 1..Len(column) : column[i] # <<>>
            THEN Inferred(type, [i \in 1..Len(column) |-> IntText(column[i])])
            ELSE NotInferred
      [] type = "float" ->
            IF \A v \in DropNa(column) : IsNumber(v)
            THEN Inferred(type, [i \in 1..Len(column) |->
                                    IF column[i] = <<>> THEN <<>> ELSE FloatText(column[i])])
            ELSE NotInferred
      [] type = "bool" ->
            Inferred(type, [i \in 1..Len(column) |->
                               IF /\ IsNumber(column[i])
                                  /\ IntOf(IntPart(column[i])) = 0
                                  /\ IsWhole(column[i])
                               THEN TextFalse ELSE TextTrue])
      [] type = "str" ->
            Inferred(type, [i \in 1..Len(column) |->
                               IF column[i] = <<>> THEN TextNan ELSE column[i]])

\* df[col]: the cells of the k-th column of a dataframe
ColumnOf(df, k) == [i \in 1..Len(df.rows) |-> df.rows[i][k]]

\* df[col] = column
SetColumn(df, k, column) ==
    [df EXCEPT !.rows = [i \in 1..Len(df.rows) |-> [df.rows[i] EXCEPT ![k] = column[i]]]]

\* Typist.__call__ as the loop would be if it inferred the type of every
\* column, the columns of the schema too
RECURSIVE typist_loop_reinfer(_, _, _)
typist_loop_reinfer(schema, df, k) ==
    IF k > Len(df.columns) THEN [schema |-> schema, df |-> df, err |-> "OK"]
    ELSE LET typed == infer_type(ColumnOf(df, k))
         IN  typist_loop_reinfer(
                 Put(schema, df.columns[k], SchemaEntry(typed.type, TRUE)),
                 SetColumn(df, k, typed.col), k + 1)

\* lines 129-163: the loop over the columns, from the k-th on
RECURSIVE typist_loop(_, _, _)
typist_loop(schema, df, k) ==
    IF k > Len(df.columns) THEN [schema |-> schema, df |-> df, err |-> "OK"]
    ELSE LET col == df.columns[k]
         IN  IF col \in DOMAIN schema
             THEN LET cast == astype(schema[col].type, ColumnOf(df, k))
                  IN  IF cast.ok
                      THEN typist_loop(schema, SetColumn(df, k, cast.col), k + 1)
                      ELSE [schema |-> schema, df |-> df, err |-> "TypeError"]
             ELSE LET typed == infer_type(ColumnOf(df, k))
                  IN  typist_loop(Put(schema, col, SchemaEntry(typed.type, TRUE)),
                                  SetColumn(df, k, typed.col), k + 1)

\* Typist.__call__: the schema and the dataframe afterwards, or the error
typist_call(schema, df) == typist_loop(schema, df, 1)

(***************************************************************************)
(* The table LastModified (Id, FileName, TimeStamp) of the store.          *)
(***************************************************************************)
LastModifiedColumns ==
    <<<<"I", "d">>, <<"F", "i", "l", "e", "N", "a", "m", "e">>, <<"T", "i", "m", "e", "S", "t", "a", "m", "p">>>>

SqliteSequenceColumns == <<<<"n", "a", "m", "e">>, <<"s", "e", "q">>>>

\* lines 186-198: CREATE TABLE LastModified when it is not there; the engine
\* makes sqlite_sequence with the first AUTOINCREMENT table
create_last_modified(d) ==
    IF NameLastModified \in DOMAIN d THEN d
    ELSE [t \in DOMAIN d \cup {NameLastModified, NameSqliteSequence} |->
             IF t = NameLastModified THEN DataFrame(LastModifiedColumns, <<>>)
             ELSE IF t = NameSqliteSequence /\ t \notin DOMAIN d
             THEN DataFrame(SqliteSequenceColumns, <<>>)
             ELSE d[t]]

\* SELECT TimeStamp FROM LastModified WHERE FileName = ?, and fetchone()
select_timestamp(d, filename) ==
    LET rows == d[NameLastModified].rows
        hits == {i \in 1..Len(rows) : rows[i][2] = filename}
    IN  IF hits = {} THEN [found |-> FALSE, TimeStamp |-> 0]
        ELSE [found |-> TRUE,
              TimeStamp |-> IntOf(rows[CHOOSE i \in hits : \A j \in hits : i <= j][3])]

\* INSERT INTO LastModified (FileName, TimeStamp) VALUES (?, ?): the Id is
\* one more than the counter of sqlite_sequence
insert_last_modified(d, filename, last_modified) ==
    LET seqs == d[NameSqliteSequence].rows
        seq  == IF seqs = <<>> THEN 0 ELSE IntOf(seqs[1][2])
    IN  [d EXCEPT
            ![NameLastModified] =
                DataFrame(LastModifiedColumns,
                          Append(@.rows, <<StrOf(seq + 1), filename, StrOf(last_modified)>>)),
            ![NameSqliteSequence] =
                DataFrame(SqliteSequenceColumns, <<<<NameLastModified, StrOf(seq + 1)>>>>)]

\* UPDATE LastModified SET TimeStamp = ? WHERE FileName = ?
update_last_modified(d, filename, last_modified) ==
    [d EXCEPT
        ![NameLastModified] =
            DataFrame(LastModifiedColumns,
                      [i \in 1..Len(@.rows) |->
                          IF @.rows[i][2] = filename
                          THEN <<@.rows[i][1], filename, StrOf(last_modified)>>
                          ELSE @.rows[i]])]

(***************************************************************************)
(* CSVFilesystemBackend.__init__, step by step.  A backend under           *)
(* construction is [db, m_cache, typists, err, synced]; err is "OK" or the *)
(* exception that ends the constructor, synced counts the calls of         *)
(* sync_csv_to_db so far.                                                  *)
(***************************************************************************)
Backend(d, mc, ty, err, synced) ==
    [db |-> d, m_cache |-> mc, typists |-> ty, err |-> err, synced |-> synced]

\* _load_typists: the typists of schema.json, one per table
load_typists(schemas) == schemas

\* _save_typists: what is written to schema.json
save_typists(ty) == ty

\* lines 358-370: the typist on the dataframe read_csv returned, and to_sql
\* of what the typist returns
sync_frame(b, table_name, df) ==
    LET typed == typist_call(b.typists[table_name], df)
    IN  Backend(IF typed.err = "OK" THEN Put(b.db, table_name, typed.df) ELSE b.db,
                b.m_cache,
                Put(b.typists, table_name, typed.schema),
                b.err, b.synced + 1)

\* sync_csv_to_db: read_csv, the typist, and to_sql(if_exists='replace');
\* when read_csv or the typist raises under every encoding the error is
\* printed and the store keeps what it had
sync_csv_to_db(b, file) ==
    IF ~file.parses THEN [b EXCEPT !.synced = @ + 1]
    ELSE sync_frame(b, PathStem(FileCsv), MirrorTable(file.rows))

\* lines 205-252: the loop over the schema files, for t.csv.schema
reconcile_schema(b, files) ==
    IF FileSchema \notin DOMAIN files THEN b
    ELSE LET filename      == FileSchema
             csv_file      == PathStem(FileSchema)
             last_modified == files[FileSchema].mtime
             mc1           == Put(b.m_cache, filename, last_modified)
             result        == select_timestamp(b.db, filename)
             d1            == IF ~result.found
                              THEN insert_last_modified(b.db, filename, last_modified)
                              ELSE IF result.TimeStamp < last_modified
                              THEN update_last_modified(b.db, filename, last_modified)
                              ELSE b.db
             mc2           == IF ~result.found \/ result.TimeStamp < last_modified
                              THEN Put(mc1, csv_file, 0)
                              ELSE mc1
             table_name    == PathStem(csv_file)
         IN  IF csv_file \notin DOMAIN mc2
             THEN Backend(d1, mc2, b.typists, "KeyError", b.synced)
             ELSE IF mc2[csv_file] = 0 \/ table_name \notin DOMAIN b.typists
             THEN Backend(d1, mc2, Put(b.typists, table_name, Typist(DeclaredSchema(files[FileSchema]))), b.err, b.synced)
             ELSE Backend(d1, mc2, b.typists, b.err, b.synced)

\* lines 254-292: the loop over the CSV files, for t.csv
reconcile_csv(b, files) ==
    IF FileCsv \notin DOMAIN files THEN b
    ELSE LET filename      == FileCsv
             last_modified == files[FileCsv].mtime
             mc1           == IF filename \notin DOMAIN b.m_cache
                              THEN Put(b.m_cache, filename, last_modified)
                              ELSE b.m_cache
             ty1           == IF PathStem(filename) \in DOMAIN b.typists THEN b.typists
                              ELSE Put(b.typists, PathStem(filename), Typist(EmptyMap))
             result        == select_timestamp(b.db, filename)
             d1            == IF ~result.found
                              THEN insert_last_modified(b.db, filename, last_modified)
                              ELSE IF result.TimeStamp < last_modified
                              THEN update_last_modified(b.db, filename, last_modified)
                              ELSE b.db
             mc2           == IF ~result.found \/ result.TimeStamp < last_modified
                              THEN Put(mc1, filename, 0)
                              ELSE mc1
         IN  IF mc2[filename] = 0
             THEN sync_csv_to_db(Backend(d1, mc2, ty1, b.err, b.synced), files[FileCsv])
             ELSE Backend(d1, mc2, ty1, b.err, b.synced)

\* lines 179-292: the backend before _save_typists and the commit
reconcile(d, schemas, files) ==
    LET b0 == Backend(create_last_modified(d), EmptyMap, load_typists(schemas), "OK", 0)
        b1 == reconcile_schema(b0, files)
    IN  IF b1.err # "OK" THEN b1 ELSE reconcile_csv(b1, files)

(***************************************************************************)
(* Mounting and unmounting, and the owner of the source directory changing *)
(* its files.                                                              *)
(***************************************************************************)
\* line 180: self.c_time = time.time(), a time after the stamp of every
\* file the directory holds
time_at_mount(src) == src.now + 1

\* CSVFS.__init__ over CSVFilesystemBackend.__init__; ret.val is the number
\* of calls of sync_csv_to_db the constructor made; when the backend's
\* constructor raises, nothing is mounted and the store keeps the table
\* LastModified it may have made
Mount ==
    /\ mounted # "mounted"
    /\ LET b == reconcile(db, schema_json, source.files)
       IN  IF b.err = "OK"
           THEN /\ db' = b.db
                /\ committed' = b.db
                /\ m_cache' = b.m_cache
                /\ typists' = b.typists
                /\ schema_json' = save_typists(b.typists)
                /\ mounted' = "mounted"
                /\ ret' = Ret("mount", DirRoot, NoArgs, "OK", b.synced, FALSE)
           ELSE /\ db' = create_last_modified(db)
                /\ committed' = create_last_modified(db)
                /\ mounted' = "failed"
                /\ ret' = Ret("mount", DirRoot, NoArgs, b.err, b.synced, FALSE)
                /\ UNCHANGED <<m_cache, typists, schema_json>>
    /\ virtual_files' = EmptyMap
    /\ query_results' = EmptyMap
    /\ stats' = EmptyMap
    /\ c_time' = time_at_mount(source)
    /\ UNCHANGED source

\* the process ends: its dictionaries are gone; what the statements of the
\* user's queries changed since the commit of the mount stays in the
\* database file when the connection committed it, and is rolled back
\* otherwise
Unmount ==
    /\ mounted = "mounted"
    /\ mounted' = "unmounted"
    /\ \E kept \in {db, committed} : db' = kept /\ committed' = kept
    /\ virtual_files' = EmptyMap
    /\ query_results' = EmptyMap
    /\ stats' = EmptyMap
    /\ m_cache' = EmptyMap
    /\ typists' = EmptyMap
    /\ ret' = Ret("unmount", DirRoot, NoArgs, "OK", 0, FALSE)
    /\ UNCHANGED <<source, schema_json, c_time>>

\* between mounts the owner writes t.csv anew; ret.op = "edit" tells a
\* change of the source directory from a call of the filesystem
WriteCsv(rows, parses) ==
    /\ mounted # "mounted"
    /\ source.now < MaxTime
    /\ source' = [now   |-> source.now + 1,
                  files |-> Put(source.files, FileCsv,
                                SourceFile(source.now + 1, rows, parses))]
    /\ ret' = Ret("edit", DirRoot, NoArgs, "OK", 0, FALSE)
    /\ UNCHANGED <<virtual_files, query_results, stats, db,
                   committed, schema_json, typists, m_cache, mounted, c_time>>

\* between mounts the owner deletes t.csv
DeleteCsv ==
    /\ mounted # "mounted"
    /\ FileCsv \in DOMAIN source.files
    /\ source' = [source EXCEPT !.files = Remove(@, FileCsv)]
    /\ ret' = Ret("edit", DirRoot, NoArgs, "OK", 0, FALSE)
    /\ UNCHANGED <<virtual_files, query_results, stats, db,
                   committed, schema_json, typists, m_cache, mounted, c_time>>

\* between mounts the owner writes t.csv.schema
WriteSchema(declares) ==
    /\ mounted # "mounted"
    /\ source.now < MaxTime
    /\ source' = [now   |-> source.now + 1,
                  files |-> Put(source.files, FileSchema,
                                SchemaFile(source.now + 1, declares))]
    /\ ret' = Ret("edit", DirRoot, NoArgs, "OK", 0, FALSE)
    /\ UNCHANGED <<virtual_files, query_results, stats, db,
                   committed, schema_json, typists, m_cache, mounted, c_time>>

(***************************************************************************)
(* Init: the mounted filesystem (CSVFS.__init__): no virtual file, no      *)
(* result, the mirror table of t.csv in the store.                         *)
(***************************************************************************)
\* the store after CSVFilesystemBackend.__init__: the mirror table of t.csv,
\* LastModified and sqlite_sequence
MountedStore(n) ==
    [t \in {TableT, NameLastModified, NameSqliteSequence} |->
        IF t = TableT THEN MirrorTable(n)
        ELSE IF t = NameLastModified THEN LastModifiedTable
        ELSE SqliteSequenceTable]

Mounted ==
    [op |-> "mount", path |-> DirRoot, args |-> NoArgs, err |-> "OK", val |-> 1,
     executed |-> FALSE, again |-> FALSE]

\* the typists after the first mount: the column c of t, inferred int
MountedTypists ==
    [t \in {TableT} |-> [col \in {ColumnC} |-> SchemaEntry("int", TRUE)]]

\* the first mount of a directory that holds t.csv with n rows
InitRows(n) ==
    /\ virtual_files = EmptyMap
    /\ query_results = EmptyMap
    /\ stats = EmptyMap
    /\ db = MountedStore(n)
    /\ ret = Mounted
    /\ source = [now |-> 1, files |-> [f \in {FileCsv} |-> SourceFile(1, n, TRUE)]]
    /\ committed = MountedStore(n)
    /\ schema_json = MountedTypists
    /\ typists = MountedTypists
    /\ m_cache = [f \in {FileCsv} |-> 0]
    /\ mounted = "mounted"
    /\ c_time = 2

\* Spec: three query files, two of them with the same name, and the
\* listings of /sql/queries and /sql/results
Init == InitRows(1)

Next ==
    \/ \E path \in QueryPaths \cup {ResultQ, PathUnknown} : Getattr(path)
    \/ \E path \in {DirQueries, DirResults} : Readdir(path)
    \/ \E path \in QueryPaths \cup {ResultQ}, data \in {<<"S", ";">>, <<"S">>} :
          Write(path, data, 0)
    \/ \E path \in QueryPaths : Create(path)
    \/ \E path \in QueryPaths \cup {ResultQ} : Unlink(path)

Spec == Init /\ [][Next]_vars

\* SpecContent: one query file, written byte by byte at every offset; the
\* file is kept to MaxLen characters
WriteBounded(path, data, offset) ==
    /\ Write(path, data, offset)
    /\ \A p \in DOMAIN virtual_files' : Len(virtual_files'[p]) <= MaxLen

NextContent ==
    \/ Getattr(QueryQ)
    \/ \E size \in ReadSizes, offset \in Offsets : Read(QueryQ, size, offset)
    \/ \E data \in DataBytes, offset \in Offsets : WriteBounded(QueryQ, data, offset)
    \/ Create(QueryQ)
    \/ \E length \in 0..MaxLen : Truncate(QueryQ, length)
    \/ Unlink(QueryQ)
    \/ Readdir(DirResults)

SpecContent == Init /\ [][NextContent]_vars

\* SpecExec: whole batches written to one query file, and its result file
NextExec ==
    \/ \E data \in BatchBytes : Write(QueryQ, data, 0)
    \/ Unlink(QueryQ)
    \/ Getattr(ResultQ)
    \/ \E size \in ReadSizes, offset \in Offsets : Read(ResultQ, size, offset)
    \/ Readdir(DirResults)

SpecExec == Init /\ [][NextExec]_vars

\* SpecData: the data files of a table of 0..MaxRows rows and a result file
InitData == \E n \in 0..MaxRows : InitRows(n)

DataPaths == {CsvT, CsvX, PageT01, PageT12, PageT56, ResultQ}

\* the page file a user reaches from an entry of readdir('/data/paged_t'):
\* the leaf directory of that name, and in it '<entry>.csv'
PagePath(entry) == DirPagedT \o <<"/">> \o entry \o <<"/">> \o entry \o SuffixCsv

\* the entries of a listing other than '.' and '..'
Entries(listing) == listing \ {<<".">>, <<".", ".">>}

ListedPages == {PagePath(e) : e \in Entries(readdir(virtual_files, query_results, db, DirPagedT))}

NextData ==
    \/ \E path \in DataPaths \cup {DirPagedT, DirLeafT12} : Getattr(path)
    \/ \E path \in DataPaths \cup ListedPages \cup {QueryQ, StatsT, StatsGlobal} :
          Read(path, BigRead, 0)
    \/ \E path \in {DirData, DirPagedT, DirLeafT12, DirResults} : Readdir(path)
    \/ \E data \in {<<"S", ";">>, <<"D", ";">>, <<"0xC3", "0xA9", ";">>} :
          Write(QueryQ, data, 0)
    \/ Unlink(QueryQ)

SpecData == InitData /\ [][NextData]_vars

\* SpecAccess: the resolver and access on paths of every kind, and the
\* operations that change the state tried on one path of every kind
NextAccess ==
    \/ \E path \in ProbePaths : Resolve(path)
    \/ \E path \in AccessPaths, amode \in AccessModes : Access(path, amode)
    \/ \E path \in MutatePaths : Create(path)
    \/ \E path \in MutatePaths : Unlink(path)
    \/ \E path \in MutatePaths : Write(path, <<"S", ";">>, 0)
    \/ Read(StatsT, BigRead, 0)
    \/ \E path \in AccessPaths : Open(path)
    \/ \E path \in AccessPaths : Flush(path)
    \/ \E path \in AccessPaths : Release(path)
    \/ \E path \in AccessPaths : Fsync(path)

SpecAccess == Init /\ [][NextAccess]_vars

\* SpecLife: every operation on two query files of the same name, and on
\* the result file and the directory of the query files
LifePaths == {QueryQ, QueryNestedQ}

NextLife ==
    \/ \E path \in LifePaths \cup {ResultQ} : Create(path)
    \/ \E path \in LifePaths \cup {ResultQ} : Write(path, <<"S", ";">>, 0)
    \/ \E path \in LifePaths \cup {ResultQ} : Truncate(path, 1)
    \/ \E path \in LifePaths \cup {ResultQ} : Unlink(path)
    \/ \E path \in LifePaths \cup {ResultQ} : Read(path, BigRead, 0)
    \/ \E path \in LifePaths \cup {ResultQ, DirQueries} : Getattr(path)
    \/ \E path \in LifePaths \cup {ResultQ, DirQueries} : Access(path, "F_OK")
    \/ Readdir(DirQueries)

SpecLife == Init /\ [][NextLife]_vars

\* SpecMount: a source directory that is empty at first, mounted and
\* unmounted while its owner writes and deletes t.csv and t.csv.schema; a
\* mounted filesystem is listed, its statistics are read and a query file
\* with a CREATE TABLE is written
InitMount ==
    /\ virtual_files = EmptyMap
    /\ query_results = EmptyMap
    /\ stats = EmptyMap
    /\ db = EmptyMap
    /\ ret = [op |-> "none", path |-> DirRoot, args |-> NoArgs, err |-> "OK", val |-> 0,
              executed |-> FALSE, again |-> FALSE]
    /\ source = [now |-> 0, files |-> EmptyMap]
    /\ committed = EmptyMap
    /\ schema_json = EmptyMap
    /\ typists = EmptyMap
    /\ m_cache = EmptyMap
    /\ mounted = "unmounted"
    /\ c_time = 0

NextMount ==
    \/ Mount
    \/ Unmount
    \/ \E rows \in 1..2 : WriteCsv(rows, TRUE)
    \/ WriteCsv(0, FALSE)
    \/ DeleteCsv
    \/ \E declares \in {"INT", "DATE"} : WriteSchema(declares)
    \/ mounted = "mounted" /\ \E path \in {DirData, DirStats} : Readdir(path)
    \/ mounted = "mounted" /\ \E path \in {CsvT, PageT01} : Getattr(path)
    \/ mounted = "mounted" /\ \E path \in {StatsT, StatsX} : Read(path, BigRead, 0)
    \/ mounted = "mounted" /\ Write(QueryQ, <<"C", ";">>, 0)

SpecMount == InitMount /\ [][NextMount]_vars

(***************************************************************************)
(* SpecTypist: sync_csv_to_db on the contents a CSV file can have.  The    *)
(* file has the columns c and d; the typist of t starts empty or with a    *)
(* declared type for c.  ret.val is the dataframe read_csv returned and    *)
(* ret.err the exception of the typist that sync_csv_to_db printed.        *)
(***************************************************************************)
\* most lines of the CSV file when it is first ingested
MaxCells == 3

\* most lines of the CSV file when it is written anew and ingested again
MaxCellsAgain == 1

ColumnD == <<"d">>

\* the texts a cell of column c has in the file
CellTexts ==
    {<<>>, <<"0">>, <<"1">>, <<"1", ".", "5">>, <<"N", "o">>,
     <<"0", "1", "/", "0", "2", "/", "2", "0", "2", "0">>}

\* the files of at most n lines: any cells in column c, and a column d of
\* empty cells or of x
CsvTexts(n) ==
    UNION {{DataFrame(<<ColumnC, ColumnD>>, [i \in 1..k |-> <<cells[i], filler>>]) :
               cells \in [1..k -> CellTexts], filler \in {<<>>, <<"x">>}} :
           k \in 0..n}

\* line 357: pandas.read_csv
read_csv(text) ==
    LET c == read_csv_column(ColumnOf(text, 1))
        d == read_csv_column(ColumnOf(text, 2))
    IN  DataFrame(text.columns, [i \in 1..Len(text.rows) |-> <<c[i], d[i]>>])

TypeNames == {"int", "float", "bool", "date", "str"}

InitTypist ==
    /\ virtual_files = EmptyMap
    /\ query_results = EmptyMap
    /\ stats = EmptyMap
    /\ db = EmptyMap
    /\ ret = [op |-> "none", path |-> DirRoot, args |-> NoArgs, err |-> "OK", val |-> 0,
              executed |-> FALSE, again |-> FALSE]
    /\ source = [now |-> 0, files |-> EmptyMap]
    /\ committed = EmptyMap
    /\ schema_json = EmptyMap
    /\ typists \in {[t \in {TableT} |-> EmptyMap]}
                       \cup {[t \in {TableT} |-> Typist([col \in {ColumnC} |-> type])] :
                                type \in TypeNames}
    /\ m_cache = EmptyMap
    /\ mounted = "mounted"
    /\ c_time = 0

\* sync_csv_to_db for a file t.csv with the given text
SyncCsv(text) ==
    LET df == read_csv(text)
        b  == sync_frame(Backend(db, m_cache, typists, "OK", 0), TableT, df)
    IN  /\ db' = b.db
        /\ typists' = b.typists
        /\ ret' = Ret("sync", DirRoot, NoArgs, typist_call(typists[TableT], df).err, df, FALSE)
        /\ UNCHANGED <<virtual_files, query_results, stats, source, committed,
                       schema_json, m_cache, mounted, c_time>>

NextTypist ==
    \/ ret.op = "none" /\ \E text \in CsvTexts(MaxCells) : SyncCsv(text)
    \/ ret.op = "sync" /\ \E text \in CsvTexts(MaxCellsAgain) : SyncCsv(text)

SpecTypist == InitTypist /\ [][NextTypist]_vars

(***************************************************************************)
(* Properties of write, read and getattr on a query file (SpecContent).    *)
(***************************************************************************)
\* the content of the file at path before a step ('' when there is none)
ContentOf(vf, path) == IF path \in DOMAIN vf THEN vf[path] ELSE <<>>

\* The content a write of text at offset is to leave, character by character.
SplicedAt(old, text, offset, i) ==
    IF i > offset /\ i <= offset + Len(text) THEN text[i - offset]
    ELSE IF i <= Len(old) THEN old[i]
    ELSE "NUL"

Spliced(old, text, offset) ==
    IF offset = 0 THEN text
    ELSE [i \in 1..Max(Len(old), offset + Len(text)) |-> SplicedAt(old, text, offset, i)]

IsQueryWrite(r) == r.op = "write" /\ get_file_type(r.path) = "query_file"

EndsInSemicolon(content) ==
    \E i \in 1..Len(content) :
        /\ content[i] = ";"
        /\ \A j \in (i + 1)..Len(content) : content[j] \in Whitespace

\* C2: a write to a query file runs the executor exactly when the content it
\* leaves, stripped, ends with ';'; a write that does not run it leaves
\* query_results unchanged.
C2_ExecutesIffSemicolon ==
    [][IsQueryWrite(ret') =>
          /\ ret'.executed <=>
                (ret'.err = "OK" /\ EndsInSemicolon(virtual_files'[ret'.path]))
          /\ ~ret'.executed => query_results' = query_results]_vars

\* a ';' followed by NUL padding is not a complete query
C2_Witness ==
    /\ ret.op = "write" /\ ret.err = "OK" /\ ~ret.executed
    /\ ContentOf(virtual_files, QueryQ) = <<";", "NUL">>

\* some statement of the batch is not empty
HasStatement(content) ==
    \E i \in 1..Len(content) : content[i] \notin Whitespace \cup {";"}

ResultListed(path) ==
    /\ PathStem(path) \in DOMAIN query_results
    /\ (PathStem(path) \o SuffixCsv) \in
          readdir(virtual_files, query_results, db, DirResults)

\* C3, as the claim states it: after every write that leaves the stripped
\* content ending with ';', the stem has a result and /sql/results lists it.
C3_ResultAfterEveryBatch ==
    (IsQueryWrite(ret) /\ ret.err = "OK"
        /\ EndsInSemicolon(virtual_files[ret.path])) => ResultListed(ret.path)

\* C3 (as amended): after a write that leaves the stripped content ending
\* with ';', the stem has a result and /sql/results lists it when the content
\* holds a non-empty statement; when it holds none, query_results is as before.
C3_ResultAfterBatch ==
    [][(IsQueryWrite(ret') /\ ret'.err = "OK"
            /\ EndsInSemicolon(virtual_files'[ret'.path])) =>
          IF HasStatement(virtual_files'[ret'.path])
          THEN /\ PathStem(ret'.path) \in DOMAIN query_results'
               /\ (PathStem(ret'.path) \o SuffixCsv) \in
                     readdir(virtual_files', query_results', db', DirResults)
          ELSE query_results' = query_results]_vars

\* a batch whose only statement the engine rejects still has its result listed
C3_Witness ==
    /\ IsQueryWrite(ret) /\ ret.executed
    /\ ContentOf(virtual_files, QueryQ) = <<"U+E9", ";">>
    /\ ResultListed(QueryQ)

\* the UTF-8 length of a text: one byte a character, two for "U+E9"
Utf8Length(text) == Len(text) + Cardinality({i \in 1..Len(text) : text[i] = "U+E9"})

\* bytes[offset : offset+size], byte by byte
Window(bytes, size, offset) ==
    [i \in 1..Max(0, Min(size, Len(bytes) - offset)) |-> bytes[offset + i]]

\* C7: a read of a query file returns bytes[offset : offset+size] of the
\* UTF-8 encoding of the file's current content.
C7_ReadReturnsWindow ==
    (ret.op = "read" /\ get_file_type(ret.path) = "query_file") =>
        /\ ret.err = "OK"
        /\ ret.val = Window(Encode(ContentOf(virtual_files, ret.path)),
                            ret.args.size, ret.args.offset)
        /\ Len(ret.val) <= ret.args.size

\* a one-byte read that starts inside the two-byte character
C7_Witness ==
    /\ ret.op = "read" /\ ret.path = QueryQ
    /\ ret.args.offset = 1 /\ ret.args.size = 1
    /\ ContentOf(virtual_files, QueryQ) = <<"U+E9", ";">>
    /\ ret.val = <<"0xA9">>

NonEmptyStatement(statement) == Len(Strip(statement)) > 0

\* the statements of a batch that are run, in order
Statements(content) == SelectSeq(Split(content, ";"), NonEmptyStatement)

\* the store after running the statements in order
RECURSIVE DbAfter(_, _)
DbAfter(d, statements) ==
    IF statements = <<>> THEN d
    ELSE DbAfter(query(d, Head(statements)).db, Tail(statements))

\* C4: when a batch executes, query_results[stem] ends up with the result of
\* the last non-empty statement, run on the store the earlier statements
\* left: its table on success, the null marker on failure, whatever was
\* stored before; the other results are as before.
C4_LastStatementWins ==
    [][(IsQueryWrite(ret') /\ ret'.executed) =>
          LET statements == Statements(virtual_files'[ret'.path])
              stem       == PathStem(ret'.path)
          IN  statements # <<>> =>
                LET earlier == SubSeq(statements, 1, Len(statements) - 1)
                    last    == query(DbAfter(db, earlier), statements[Len(statements)])
                IN  /\ stem \in DOMAIN query_results'
                    /\ query_results'[stem] = last.df
                    /\ db' = last.db
                    /\ \A n \in DOMAIN query_results' \ {stem} :
                          n \in DOMAIN query_results /\ query_results'[n] = query_results[n]
                    /\ DOMAIN query_results \subseteq DOMAIN query_results']_vars

\* a batch whose first statement succeeds and whose last one fails
C4_Witness ==
    /\ IsQueryWrite(ret) /\ ret.executed
    /\ ret.args.data = <<"S", ";", "0xC3", "0xA9", ";">>
    /\ PathStem(QueryQ) \in DOMAIN query_results
    /\ query_results[PathStem(QueryQ)] = Null

\* the last non-empty statement of the batch is one Backend.query answers
\* with the null marker (anything but the SELECT)
LastStatementFails(content) ==
    LET statements == Statements(content)
    IN  statements # <<>> /\ Strip(statements[Len(statements)]) # <<"S">>

C5_UnlinkUnlists ==
    [][(ret'.op = "unlink" /\ ret'.err = "OK") =>
          /\ ret'.path \notin DOMAIN virtual_files'
          /\ PathStem(ret'.path) \notin DOMAIN query_results'
          /\ PathName(ret'.path) \notin
                readdir(virtual_files', query_results', db', DirQueries)
          /\ (PathStem(ret'.path) \o SuffixCsv) \notin
                readdir(virtual_files', query_results', db', DirResults)
          /\ \A p \in DOMAIN virtual_files \ {ret'.path} :
                p \in DOMAIN virtual_files' /\ virtual_files'[p] = virtual_files[p]
          /\ \A n \in DOMAIN query_results \ {PathStem(ret'.path)} :
                n \in DOMAIN query_results' /\ query_results'[n] = query_results[n]]_vars

\* the path /sql/queries/<n>.sql
QueryPathOf(n) == PrefixQueries \o n \o SuffixSql

\* C6: a result is stored under n only when the virtual query file
\* /sql/queries/<n>.sql exists at the moment the query is executed.
C6_ResultHasQueryFile ==
    [][\A n \in DOMAIN query_results' :
          (n \notin DOMAIN query_results \/ query_results'[n] # query_results[n]) =>
              QueryPathOf(n) \in DOMAIN virtual_files']_vars

(***************************************************************************)
(* Properties of the data files (SpecData).                                *)
(***************************************************************************)
\* C8: for a csv file, a page or a result file on which getattr succeeds,
\* st_size is the byte length of what a read of the whole file returns.
C8_SizeIsReadLength ==
    (ret.op = "getattr" /\ ret.path \in DataPaths /\ ret.err = "OK") =>
        ret.val.st_size =
            Len(read(virtual_files, query_results, db, ret.path, BigRead, 0))

(***************************************************************************)
(* Properties of the pages of a large table (SpecData).                    *)
(***************************************************************************)
\* the rows of the mirror table t
TableRows == db[TableT].rows

\* the row window an entry '<T>.<a>-<b>' of /data/paged_<T> names: readdir
\* labels the window [start, end] as <start+1>-<end+1>
WindowOf(entry) ==
    LET info == parse_pagination(entry)
    IN  <<info.start_row - 1, info.end_row - 1>>

IsPagedListing(r) == r.op = "readdir" /\ r.path = DirPagedT

\* C11: for a table of R > PAGE_SIZE rows the windows named by the entries
\* of readdir('/data/paged_<T>') cover the rows 0..R-1 without overlap and
\* without gap; for R = PAGE_SIZE + 1 they are [0, P-1] and [P, P].
C11_WindowsCoverRows ==
    (IsPagedListing(ret) /\ Len(TableRows) > PAGE_SIZE) =>
        LET R       == Len(TableRows)
            windows == {WindowOf(e) : e \in Entries(ret.val)}
        IN  /\ \A e \in Entries(ret.val) : parse_pagination(e).ok
            /\ Cardinality(windows) = Cardinality(Entries(ret.val))
            /\ \A w \in windows : 0 <= w[1] /\ w[1] <= w[2] /\ w[2] <= R - 1
            /\ \A i \in 0..(R - 1) :
                  Cardinality({w \in windows : w[1] <= i /\ i <= w[2]}) = 1
            /\ R = PAGE_SIZE + 1 =>
                  windows = {<<0, PAGE_SIZE - 1>>, <<PAGE_SIZE, PAGE_SIZE>>}

\* the listing of a table of 2 * PAGE_SIZE + 1 rows: three windows, the last
\* of one row
C11_Witness ==
    /\ IsPagedListing(ret)
    /\ Len(TableRows) = 2 * PAGE_SIZE + 1
    /\ Cardinality(Entries(ret.val)) = 3
    /\ <<2 * PAGE_SIZE, 2 * PAGE_SIZE>> \in {WindowOf(e) : e \in Entries(ret.val)}

\* the text of a CSV rendering after its header row
AfterHeader(csv, columns) == SliceFrom(csv, Len(CsvLine(columns)))

\* the data rows of the page files reached from the entries, in label order
RECURSIVE ConcatPages(_)
ConcatPages(entries) ==
    IF entries = {} THEN <<>>
    ELSE LET first == CHOOSE e \in entries : \A f \in entries :
                         parse_pagination(e).start_row <= parse_pagination(f).start_row
             leaf  == DirPagedT \o <<"/">> \o first
             files == Entries(readdir(virtual_files, query_results, db, leaf))
             name  == CHOOSE f \in files : TRUE
             page  == read(virtual_files, query_results, db,
                           leaf \o <<"/">> \o name, BigRead, 0)
         IN  AfterHeader(page, db[TableT].columns) \o ConcatPages(entries \ {first})

\* C12: for a table of R > PAGE_SIZE rows, reading every page file reached
\* from the entries of readdir('/data/paged_<T>') and concatenating the data
\* rows in label order yields every row of the table once, in table order.
C12_PagesYieldTable ==
    (IsPagedListing(ret) /\ Len(TableRows) > PAGE_SIZE) =>
        ConcatPages(Entries(ret.val)) =
            AfterHeader(Encode(to_csv(db[TableT], FALSE)), db[TableT].columns)

\* the mirror tables: every table of the store but the two bookkeeping ones
MirrorTables == DOMAIN db \ {NameLastModified, NameSqliteSequence}

\* C13: readdir('/data') lists for every mirror table T exactly one of
\* '<T>.csv' (row count <= PAGE_SIZE) and 'paged_<T>' (row count >
\* PAGE_SIZE), and lists nothing for LastModified and sqlite_sequence.
C13_DataListing ==
    (ret.op = "readdir" /\ ret.path = DirData) =>
        /\ \A T \in MirrorTables :
              /\ (T \o SuffixCsv) \in ret.val <=> Len(db[T].rows) <= PAGE_SIZE
              /\ (NamePaged \o T) \in ret.val <=> Len(db[T].rows) > PAGE_SIZE
        /\ \A T \in {NameLastModified, NameSqliteSequence} :
              (T \o SuffixCsv) \notin ret.val /\ (NamePaged \o T) \notin ret.val
        /\ Entries(ret.val) \subseteq
              {T \o SuffixCsv : T \in MirrorTables} \cup {NamePaged \o T : T \in MirrorTables}

\* the listing of /data when the table has exactly PAGE_SIZE rows
C13_Witness ==
    /\ ret.op = "readdir" /\ ret.path = DirData
    /\ Len(TableRows) = PAGE_SIZE
    /\ NameLastModified \in DOMAIN db
    /\ Entries(ret.val) = {TableT \o SuffixCsv}

(***************************************************************************)
(* Properties of access, of the resolver and of the refused operations     *)
(* (SpecAccess).                                                           *)
(***************************************************************************)
IsAccess(r, amode) == r.op = "access" /\ r.args.amode = amode

\* C14: access with X_OK fails with EACCES on every path, directories
\* included; on a directory only F_OK and R_OK succeed.
C14_ExecuteDenied ==
    ret.op = "access" =>
        /\ ret.args.amode = "X_OK" => ret.err = "EACCES"
        /\ get_file_type(ret.path) \in DirKinds =>
              (ret.err = "OK" <=> ret.args.amode \in {"F_OK", "R_OK"})

\* C15: access with W_OK returns 0 only on a path classified query_file.
C15_WriteOnlyQueryFiles ==
    (IsAccess(ret, "W_OK") /\ ret.err = "OK") => get_file_type(ret.path) = "query_file"

\* C16: access with F_OK returns 0 on every path classified query_file,
\* whether or not the file is in virtual_files.
C16_QueryFileAlwaysExists ==
    (IsAccess(ret, "F_OK") /\ get_file_type(ret.path) = "query_file") => ret.err = "OK"

\* F_OK on a query file that is not there, while its result file is not
\* there either
C16_Witness ==
    /\ IsAccess(ret, "F_OK") /\ ret.path = QueryQ /\ ret.err = "OK"
    /\ QueryQ \notin DOMAIN virtual_files
    /\ access(virtual_files, query_results, db, ResultQ, "F_OK") = "ENOENT"

\* the whole of name has the shape <stem>.<digits>-<digits><tail>
WholePagination(name, tail) ==
    \E i, j \in 1..Len(name) :
        LET e == Len(name) - Len(tail)
        IN  /\ i >= 2 /\ name[i] = "."
            /\ j >= i + 2 /\ name[j] = "-"
            /\ \A k \in (i + 1)..(j - 1) : IsDigit(name[k])
            /\ e >= j + 1
            /\ \A k \in (j + 1)..e : IsDigit(name[k])
            /\ SubSeq(name, e + 1, Len(name)) = tail

Kinds ==
    {"directory", "stats_file", "paginated_csv_file", "csv_file",
     "paginated_leaf_directory", "paginated_directory", "query_file",
     "result_file", "unknown"}

\* the first rule of the rule table that matches, read top to bottom
FirstMatch(path) ==
    IF path \in {DirRoot, DirData, DirSql, DirQueries, DirResults, DirStats, DirSchemas}
    THEN "directory"
    ELSE IF StartsWith(path, PrefixStats) /\ EndsWith(path, SuffixJson) THEN "stats_file"
    ELSE IF StartsWith(path, PrefixData) /\ EndsWith(path, SuffixCsv)
            /\ WholePagination(PathName(path), SuffixCsv)
    THEN "paginated_csv_file"
    ELSE IF StartsWith(path, PrefixData) /\ EndsWith(path, SuffixCsv) THEN "csv_file"
    ELSE IF StartsWith(path, PrefixPaged) /\ WholePagination(PathName(path), <<>>)
    THEN "paginated_leaf_directory"
    ELSE IF StartsWith(path, PrefixPaged) THEN "paginated_directory"
    ELSE IF StartsWith(path, PrefixQueries) /\ EndsWith(path, SuffixSql) THEN "query_file"
    ELSE IF StartsWith(path, PrefixResults) /\ EndsWith(path, SuffixCsv) THEN "result_file"
    ELSE "unknown"

\* C17: the resolver returns for every path one kind of the nine, the kind
\* of the first matching rule of the rule table, whatever the state.
C17_ResolverFirstMatch ==
    /\ ret.op = "_get_file_type" =>
          /\ ret.val \in Kinds
          /\ ret.val = FirstMatch(ret.path)
    /\ ret.op \in {"access", "create", "unlink", "write"} /\ ret.path \in ProbePaths =>
          get_file_type(ret.path) = FirstMatch(ret.path)

\* C18: a path with prefix /data/ and suffix .csv is a paginated_csv_file
\* exactly when its whole basename is <stem>.<digits>-<digits>.csv, and a
\* csv_file otherwise.
C18_PaginatedWholeBasename ==
    (ret.op = "_get_file_type" /\ StartsWith(ret.path, PrefixData)
        /\ EndsWith(ret.path, SuffixCsv)) =>
        ret.val = IF WholePagination(PathName(ret.path), SuffixCsv)
                  THEN "paginated_csv_file" ELSE "csv_file"

\* C19: write, create and unlink on a path that is not classified
\* query_file fail with EACCES and leave virtual_files, query_results and
\* stats unchanged.
C19_RefusedOutsideQueries ==
    [][(ret'.op \in {"write", "create", "unlink"}
          /\ get_file_type(ret'.path) # "query_file") =>
          /\ ret'.err = "EACCES"
          /\ virtual_files' = virtual_files
          /\ query_results' = query_results
          /\ stats' = stats]_vars

\* a write refused on a result file that exists, with a query file, a
\* result and a statistics document in place
C19_Witness ==
    /\ ret.op = "write" /\ ret.path = ResultQ /\ ret.err = "EACCES"
    /\ QueryQ \in DOMAIN virtual_files
    /\ PathStem(ResultQ) \in DOMAIN query_results
    /\ TableT \in DOMAIN stats

\* C20: unlink of a path classified query_file that has no entry in
\* virtual_files reports ENOENT and changes no state.
C20_UnlinkMissingIsNotFound ==
    [][(ret'.op = "unlink" /\ get_file_type(ret'.path) = "query_file"
          /\ ret'.path \notin DOMAIN virtual_files) =>
          /\ ret'.err = "ENOENT"
          /\ UNCHANGED <<virtual_files, query_results, stats, db>>]_vars

\* C21: open, flush, release and fsync return 0 for every path of a
\* recognized file kind and fail with EACCES for every other path
\* (directories and unknown paths).
C21_HandleOpsByKind ==
    ret.op \in {"open", "flush", "release", "fsync"}
        => ret.err = IF get_file_type(ret.path) \in FileKinds THEN "OK" ELSE "EACCES"

\* C22: truncate(q, L) on an existing query file leaves virtual_files[q]
\* with length exactly L (the first L units of the old content when it was
\* longer, the old content followed by NULs when it was shorter), and
\* afterwards getattr(q).st_size = L; truncate on a path of another kind
\* changes no state.
C22_TruncateExactLength ==
    [][ret'.op = "truncate" =>
          LET q == ret'.path
              L == ret'.args.size
          IN  IF get_file_type(q) = "query_file" /\ q \in DOMAIN virtual_files
              THEN /\ q \in DOMAIN virtual_files'
                   /\ Len(virtual_files'[q]) = L
                   /\ virtual_files'[q] =
                         IF Len(virtual_files[q]) > L
                         THEN SubSeq(virtual_files[q], 1, L)
                         ELSE virtual_files[q] \o [i \in 1..(L - Len(virtual_files[q])) |-> "NUL"]
                   /\ getattr(virtual_files', query_results', stats', db', q).st_size = L
              ELSE UNCHANGED <<virtual_files, query_results, stats, db>>]_vars

\* C23: write idempotence: for every query file q, data b and offset o,
\* performing write(q, b, o) twice in a row leaves virtual_files[q] equal to
\* its value after the first call.
C23_WriteIdempotent ==
    [][(ret'.op = "write" /\ ret'.again /\ get_file_type(ret'.path) = "query_file") =>
          /\ ret'.path \in DOMAIN virtual_files
          /\ ret'.path \in DOMAIN virtual_files'
          /\ virtual_files'[ret'.path] = virtual_files[ret'.path]]_vars

\* the second of two equal writes of one byte at offset 1 into a file that
\* is longer than the written range
C23_Witness ==
    /\ ret.op = "write" /\ ret.again /\ ret.err = "OK"
    /\ ret.args.offset = 1 /\ Len(ret.args.data) = 1
    /\ Len(ContentOf(virtual_files, ret.path)) = 3

\* C24: read is pure with respect to consecutive reads: two reads
\* read(p, n, k) with no other operation in between return the same bytes
\* (or raise the same error), and a read leaves virtual_files,
\* query_results and the mirror tables unchanged.
C24_ReadPure ==
    [][ret'.op = "read" =>
          /\ UNCHANGED <<virtual_files, query_results, db>>
          /\ ret'.again => (ret'.val = ret.val /\ ret'.err = ret.err)]_vars

\* the second of two reads of /stats/t.json, whose first read materialized
\* the document, after a query emptied the table
C24_Witness ==
    /\ ret.op = "read" /\ ret.again /\ ret.path = StatsT
    /\ ret.err = "OK" /\ ret.val # <<>>
    /\ TableT \in DOMAIN stats
    /\ TableT \in DOMAIN db /\ db[TableT].rows = <<>>

\* C25: a virtual query file, once created by create or write, stays in
\* virtual_files (and in readdir('/sql/queries')) until unlink is called on
\* that same path: no read, getattr, access, readdir, truncate, write or
\* create on any path, and no unlink of another path, removes it.
C25_QueryFilePersists ==
    [][/\ (ret'.op \in {"create", "write"} /\ get_file_type(ret'.path) = "query_file")
            => ret'.path \in DOMAIN virtual_files'
       /\ \A q \in DOMAIN virtual_files :
            ~(ret'.op = "unlink" /\ ret'.path = q) =>
               /\ q \in DOMAIN virtual_files'
               /\ PathName(q) \in readdir(virtual_files', query_results', db', DirQueries)]_vars

\* an unlink of one query file that left the other file of the same name
C25_Witness ==
    /\ ret.op = "unlink" /\ ret.err = "OK" /\ ret.path = QueryQ
    /\ QueryQ \notin DOMAIN virtual_files
    /\ QueryNestedQ \in DOMAIN virtual_files

\* C26: during a mount, read of /data/<T>.csv returns the rendering of the
\* rows ingested at mount time: no filesystem operation after mount
\* (including writes of query files that get executed) changes the bytes a
\* read of a CSV mirror returns.
C26_MirrorReadStable ==
    [][read(virtual_files', query_results', db', CsvT, BigRead, 0)
          = read(virtual_files, query_results, db, CsvT, BigRead, 0)]_vars

\* C27: a statistics document, once materialized for a table T or for
\* 'global', is returned unchanged by every later read of its stats file:
\* later operations (including executed queries that change row counts) do
\* not alter it, and no filesystem operation removes a stats entry or
\* clears its up_to_date flag.
C27_StatsDocumentKept ==
    [][\A name \in DOMAIN stats :
          /\ name \in DOMAIN stats'
          /\ stats'[name] = stats[name]
          /\ stats'[name].up_to_date
          /\ (ret'.op = "read" /\ get_file_type(ret'.path) = "stats_file"
                 /\ PathStem(ret'.path) = name) =>
                /\ ret'.err = "OK"
                /\ ret'.val = read_window(json_dumps(stats[name]),
                                          ret'.args.size, ret'.args.offset)]_vars

\* a read of /stats/global.json that returned the document materialized
\* before a query emptied the table: it still counts the rows of then
C27_Witness ==
    /\ ret.op = "read" /\ ret.path = StatsGlobal /\ ret.err = "OK"
    /\ NameGlobal \in DOMAIN stats
    /\ ret.val = read_window(json_dumps(stats[NameGlobal]), ret.args.size, ret.args.offset)
    /\ stats[NameGlobal].rows > 0
    /\ total_rows(get_tables(db), db) = 0

\* the tables readdir('/data') or readdir('/stats') exposes: T is listed as
\* T.csv, as paged_T or as T.json
ExposedTables ==
    LET data  == readdir(virtual_files, query_results, db, DirData)
        stat  == readdir(virtual_files, query_results, db, DirStats)
    IN  {T \in DOMAIN db : \/ T \o SuffixCsv \in data
                           \/ NamePaged \o T \in data
                           \/ T \o SuffixJson \in stat}

\* C28: in every state reachable after mount and any sequence of
\* operations, every table T that readdir('/data') or readdir('/stats')
\* exposes has an entry typists[T], and schema.json written at mount
\* contains T; consequently reading /stats/<T>.json for any listed T finds
\* a typist schema.
C28_ListedTablesHaveTypists ==
    mounted = "mounted" =>
        \A T \in ExposedTables :
            /\ T \in DOMAIN typists
            /\ T \in DOMAIN schema_json
            /\ HasSchema(T, SelectAll(db, T))

\* C29: every mirror table exposed to the user has a name equal to the
\* stem of exactly one source CSV that is present in the source directory
\* and was ingested for this mount (the table holds the rows of that file);
\* this holds across remounts after a source CSV is deleted and after
\* executed queries.
C29_TablesMirrorSourceFiles ==
    mounted = "mounted" =>
        \A T \in ExposedTables :
            /\ Cardinality({f \in DOMAIN source.files :
                               EndsWith(f, SuffixCsv) /\ PathStem(f) = T}) = 1
            /\ source.files[T \o SuffixCsv].parses
            /\ db[T] = MirrorTable(source.files[T \o SuffixCsv].rows)

\* the CSV files of the source directory
SourceCsvs == {f \in DOMAIN source.files : EndsWith(f, SuffixCsv)}

\* C30: after mount-time reconciliation, for every source CSV f (whether it
\* was just ingested or found fresh), LastModified[f].TimeStamp >= f.mtime
\* and m_cache[f] equals f.mtime.
C30_ReconciledTimes ==
    mounted = "mounted" =>
        \A f \in SourceCsvs :
            /\ select_timestamp(db, f).found
            /\ select_timestamp(db, f).TimeStamp >= source.files[f].mtime
            /\ f \in DOMAIN m_cache
            /\ m_cache[f] = source.files[f].mtime

\* C31: getattr on a source-CSV-derived file (/data/<T>.csv or a page of T)
\* reports st_mtime equal to the modification time recorded for T in the
\* modification cache, and the mount creation time only when the cache has
\* no entry for T; st_ctime equals the mount creation time.
C31_MirrorTimes ==
    (/\ ret.op = "getattr" /\ ret.err = "OK"
     /\ get_file_type(ret.path) \in {"csv_file", "paginated_csv_file"}) =>
        LET T == IF get_file_type(ret.path) = "csv_file" THEN PathStem(ret.path)
                 ELSE parse_pagination(ret.path).table
        IN  /\ ret.val.st_ctime = c_time
            /\ ret.val.st_mtime = IF T \o SuffixCsv \in DOMAIN m_cache
                                  THEN m_cache[T \o SuffixCsv]
                                  ELSE c_time

\* a mount step that finds t.csv unparsable and due for ingestion: no row
\* of LastModified, or a row older than the file
FailedIngestion ==
    /\ ret'.op = "mount"
    /\ FileCsv \in DOMAIN source.files
    /\ ~source.files[FileCsv].parses
    /\ LET result == select_timestamp(create_last_modified(db), FileCsv)
       IN  ~result.found \/ result.TimeStamp < source.files[FileCsv].mtime

\* C32: LastModified[f] holds the modification time of the last ingestion
\* of f that succeeded: when ingestion of f fails at mount, the mirror table
\* is neither created nor updated, no error propagates, and LastModified[f]
\* is not advanced to the new mtime, so the next mount attempts f again.
C32_FailedIngestionNotRecorded ==
    [][FailedIngestion =>
          /\ ret'.err = "OK"
          /\ (TableT \in DOMAIN db') = (TableT \in DOMAIN db)
          /\ TableT \in DOMAIN db => db'[TableT] = db[TableT]
          /\ LET recorded == select_timestamp(db', FileCsv)
             IN  ~recorded.found \/ recorded.TimeStamp < source.files[FileCsv].mtime]_vars

\* the stored timestamp of a file of the source directory is missing or
\* older than the file
Outdated(d, files, f) ==
    LET result == select_timestamp(create_last_modified(d), f)
    IN  ~result.found \/ result.TimeStamp < files[f].mtime

\* t.csv is due at this mount: it has no row, or an older one, or its
\* schema override forces the refresh
DueForIngestion ==
    /\ FileCsv \in DOMAIN source.files
    /\ \/ Outdated(db, source.files, FileCsv)
       \/ (FileSchema \in DOMAIN source.files /\ Outdated(db, source.files, FileSchema))

\* C33: at mount, a source CSV f is ingested (sync_csv_to_db called,
\* exactly once) if and only if LastModified has no row for f, or its
\* stored timestamp is older than f's mtime, or f's schema override forced
\* a refresh; a CSV whose stored timestamp is not older than its mtime and
\* whose override is unchanged is not re-ingested.
C33_IngestedIffDue ==
    [][ret'.op = "mount" => ret'.val = IF DueForIngestion THEN 1 ELSE 0]_vars

\* a mount step that finds the schema override of t.csv unrecorded or newer
\* than its record, beside a t.csv that parses
SchemaOverrideDue ==
    /\ ret'.op = "mount"
    /\ FileSchema \in DOMAIN source.files
    /\ Outdated(db, source.files, FileSchema)
    /\ FileCsv \in DOMAIN source.files
    /\ source.files[FileCsv].parses

\* C34: at mount, a schema override t.csv.schema that is not recorded, or
\* newer than its record, forces the ingestion of t.csv even when t.csv is
\* unchanged, and installs for t a Typist whose entries are exactly the
\* override's columns, each with inferred = false; the override is processed
\* before the CSV, so the table is ingested under the declared types.
C34_OverrideForcesIngestion ==
    [][SchemaOverrideDue =>
          /\ ret'.err = "OK"
          /\ ret'.val = 1
          /\ TableT \in DOMAIN typists'
          /\ typists'[TableT] =
                 [col \in {ColumnC} |->
                     [type     |-> schema_lookup(source.files[FileSchema].declares),
                      inferred |-> FALSE]]
          /\ TableT \in DOMAIN db'
          /\ db'[TableT] = MirrorTable(source.files[FileCsv].rows)]_vars

\* C35: Typist apply never changes an existing schema entry: a column
\* already in the schema (declared by the user, or kept from an earlier
\* ingestion) has the same type and the same inferred flag after apply as
\* before, whatever values the column holds; only columns absent from the
\* schema get a new entry, and that entry is marked inferred = true.
C35_ExistingEntriesKept ==
    [][ret'.op = "sync" =>
          LET before == typists[TableT]
              after  == typists'[TableT]
          IN  /\ \A col \in DOMAIN before : col \in DOMAIN after /\ after[col] = before[col]
              /\ \A col \in DOMAIN after \ DOMAIN before : after[col].inferred]_vars

\* the file held a cell that is no number in the column c declared int,
\* and the column d got its entry by inference
C35_Witness ==
    /\ ret.op = "sync"
    /\ typists[TableT][ColumnC] = [type |-> "int", inferred |-> FALSE]
    /\ \E i \in 1..Len(ret.val.rows) : ret.val.rows[i][1] = <<"N", "o">>
    /\ ColumnD \in DOMAIN typists[TableT]
    /\ typists[TableT][ColumnD].inferred

\* the values of the k-th column of the dataframe the typist was given
GivenValues(k) == DropNa(ColumnOf(ret'.val, k))

\* the k-th column of the dataframe got its entry by this apply
NewlyTyped(k) ==
    /\ ret'.op = "sync"
    /\ ret'.val.columns[k] \notin DOMAIN typists[TableT]
    /\ ret'.val.columns[k] \in DOMAIN typists'[TableT]

\* C36: for a column not in the schema, inference tries boolean, then
\* numeric, then datetime, then string, and records the first that
\* succeeds: a column whose non-null values are exactly two distinct values,
\* both in the lexicon after lower-casing, is typed bool and its nulls
\* become False, even when both values are numbers such as 0 and 1;
\* otherwise a column whose non-null cells are all numbers is int when all
\* are whole and float when not; otherwise a column of dates is date, and
\* any other column is str.  (The column of no value at all is C37's.)
C36_InferenceOrder ==
    [][\A k \in 1..2 :
          (NewlyTyped(k) /\ GivenValues(k) # {}) =>
              LET values == GivenValues(k)
                  type   == typists'[TableT][ret'.val.columns[k]].type
              IN  IF Cardinality(values) = 2 /\ \A v \in values : Lower(v) \in Lexicon
                  THEN /\ type = "bool"
                       /\ ret'.err = "OK" =>
                              \A i \in 1..Len(ret'.val.rows) :
                                  ret'.val.rows[i][k] = <<>> =>
                                      db'[TableT].rows[i][k] = TextFalse
                  ELSE IF \A v \in values : IsNumber(v)
                  THEN type = IF \A v \in values : IsWhole(v) THEN "int" ELSE "float"
                  ELSE IF \E f \in 1..Len(DateFormats) :
                              \A v \in values : ParsesAs(v, DateFormats[f])
                  THEN type = "date"
                  ELSE type = "str"]_vars

\* the column c of 0 and 1 was typed bool
C36_Witness ==
    /\ ret.op = "sync"
    /\ ret.err = "OK"
    /\ typists[TableT][ColumnC] = [type |-> "bool", inferred |-> TRUE]
    /\ DropNa(ColumnOf(ret.val, 1)) = {<<"0">>, <<"1">>}

\* C37: a column not in the schema that has no non-null value (every cell
\* empty) is typed str by Typist apply.
C37_AllNullIsString ==
    [][\A k \in 1..2 :
          (NewlyTyped(k) /\ GivenValues(k) = {}) =>
              typists'[TableT][ret'.val.columns[k]].type = "str"]_vars

\* t.csv and its schema override are both recorded in LastModified with
\* timestamps not older than the files
UnchangedSources ==
    /\ FileCsv \in DOMAIN source.files
    /\ FileSchema \in DOMAIN source.files
    /\ ~Outdated(db, source.files, FileCsv)
    /\ ~Outdated(db, source.files, FileSchema)

\* C38: the reconciliation at mount completes without an unhandled error
\* for every state of the source directory that earlier mounts can leave
\* behind; a second mount with an unchanged t.csv.schema and an unchanged
\* t.csv completes and keeps the typist of t.
C38_MountCompletes ==
    [][ret'.op = "mount" =>
          /\ ret'.err = "OK"
          /\ UnchangedSources =>
                 /\ TableT \in DOMAIN schema_json
                 /\ TableT \in DOMAIN typists'
                 /\ typists'[TableT] = schema_json[TableT]]_vars

\* os.path.join(d, name)
ChildPath(d, name) == IF d = DirRoot THEN d \o name ELSE d \o <<"/">> \o name

\* the names readdir(d) returns other than '.' and '..'
Listed(d) == Entries(readdir(virtual_files, query_results, db, d))

\* the directories a walk from '/' comes to: the fixed ones, the directory
\* of the pages of t when '/data' lists it, and the leaf directory of each
\* page it lists
WalkedDirectories ==
    LET paged == IF DirPagedT \in {ChildPath(DirData, name) : name \in Listed(DirData)}
                 THEN {DirPagedT} ELSE {}
    IN  {DirRoot, DirData, DirSql, DirQueries, DirResults, DirStats} \cup paged
            \cup UNION {{ChildPath(d, name) : name \in Listed(d)} : d \in paged}

\* C39: listing and lookup agree: in every reachable state, for every name
\* that readdir(d) returns other than '.' and '..', getattr of
\* d + '/' + name succeeds; so for the entries of /sql/results whose result
\* is the null marker, for the page entries of /data/paged_t and the file of
\* each leaf directory, and for the entries of /data and /stats.
C39_ListedEntriesExist ==
    \A d \in WalkedDirectories :
        \A name \in Listed(d) :
            getattr(virtual_files, query_results, stats, db, ChildPath(d, name)).err = "OK"

\* C40: in every reachable state every key n of query_results has at least
\* one path of virtual_files that is a query file and whose stem is n:
\* results are stored only by a write to a query file, which exists from
\* then on, they survive create and truncate of the file, and they are
\* removed when a query file of that stem is unlinked.
C40_ResultsHaveQueryFiles ==
    \A n \in DOMAIN query_results :
        \E path \in DOMAIN virtual_files :
            get_file_type(path) = "query_file" /\ PathStem(path) = n

\* a write to the nested query file stored a result under its stem while
\* the file /sql/queries/q.sql of the same stem does not exist
C40_Witness ==
    /\ ret.op = "write" /\ ret.err = "OK" /\ ret.path = QueryNestedQ
    /\ QueryQ \notin DOMAIN virtual_files
    /\ PathStem(QueryNestedQ) \in DOMAIN query_results


====
